---- MODULE Spec2Model ----
(***************************************************************************)
(* Attendance reconstruction pipeline of Puisaeroyi/sliver.                *)
(*                                                                         *)
(* Part I   - ShiftDetector.detectUserShifts (optimised single pass), as a *)
(*            step machine over one employee's start-ordered bursts.       *)
(* Part II  - determineShiftStatus (strict) and determineShiftStatusV2     *)
(*            (tolerant) as pure operators applied to bounded inputs, the  *)
(*            completeness calculator, and the deviation columns of the    *)
(*            attendance record.                                           *)
(* Part III - parseDeviations and getMissedPunch applied to status strings.*)
(* Part IV  - burst detection: swipes grouped by user, sorted, clustered.  *)
(* Part V   - the row stage of POST /api/v1/processor: worksheet rows to   *)
(*            swipe records, the two filters, warnings and the response.   *)
(*                                                                         *)
(* Time representation.  A Date is an integer number of seconds since      *)
(* local midnight of day 0.  A time-of-day string "HH:MM:SS" is the number *)
(* of seconds since midnight; its first five characters "HH:MM" are the    *)
(* minute of the day.  Lexicographic comparison of fixed-width "HH:MM"     *)
(* strings is integer comparison of minutes of the day.                    *)
(***************************************************************************)
EXTENDS Integers, Sequences, FiniteSets, TLC

VARIABLES
    cfg,             \* ShiftDetector.config.shifts: which template set is loaded
    bursts,          \* one employee's bursts, sorted by burstStart
    assigned,        \* classifications[k].assigned
    i,               \* outer loop index of detectUserShifts (1-based)
    j,               \* inner (forward scan) index (1-based)
    pc,              \* position in detectUserShifts: "outer" | "inner" | "done"
                     \* ("idle" while only the evaluator is exercised)
    windowEnd,       \* activity window end of the open instance
    assignedBursts,  \* bursts pushed to the open instance so far
    shiftInstances,  \* instances created so far
    earlier,         \* outcome of the earlier detectUserShifts on bursts, or NotRun
    visits,          \* visits[k]: times the forward scan looked at burst k, times it marked it
    input,           \* the four timestamps and the shift handed to the evaluator
    resultV2,        \* result of determineShiftStatusV2 on input, or NotRun
    resultV1,        \* result of determineShiftStatus on input, or NotRun
    calc,            \* outputs of the completeness calculator on input, or NotRun
    record,          \* deviation columns of the attendance record, or NotRun
    deviationData,   \* is the record in deviationData, per feature flag setting
    written,         \* flags and missing fields a status string was written from
    statusText,      \* the status string handed to the parser
    flags,           \* result of parseDeviations(statusText), or NotRun
    missedPunch,     \* result of getMissedPunch(statusText), or NotRun
    swipeInput,      \* swipes handed to detectBursts
    userGroups,      \* groups of groupSwipesByUser not yet processed
    userSwipes,      \* the current user's swipes, sorted by timestamp
    si,              \* loop index of detectUserBursts (1-based)
    currentBurst,    \* swipes of the burst being built
    userBursts,      \* bursts closed so far for the current user
    detected,        \* bursts of the users processed so far
    bpc,             \* position in detectBursts
    sheet,           \* worksheet rows 2..rowCount
    rawData,         \* non-empty rows collected from the worksheet
    ri,              \* index of the parse loop into rawData (0-based)
    swipes,          \* swipe records that passed both filters
    warnings,        \* warnings recorded for rows that failed to parse
    filteredByStatus,
    filteredByUser,
    stagesRun,       \* pipeline stages started after the row stage
    response,        \* the JSON response, or NotRun
    stage,           \* position in POST
    records,         \* attendance records handed to the analytics transformers
    userStats,       \* result of calculateUserStats(records) (in .list), or NotRun
    summary          \* result of generateSummaryStats(records), or NotRun

shiftVars  == <<cfg, bursts, assigned, i, j, pc, windowEnd, assignedBursts,
                shiftInstances, visits, earlier>>
statusVars == <<input, resultV2, resultV1, calc, record, deviationData>>
parseVars  == <<written, statusText, flags, missedPunch>>
burstVars  == <<swipeInput, userGroups, userSwipes, si, currentBurst, userBursts,
                detected, bpc>>
batchVars  == <<sheet, rawData, ri, swipes, warnings, filteredByStatus,
                filteredByUser, stagesRun, response, stage>>
statsVars  == <<records, userStats, summary>>
vars       == <<shiftVars, statusVars, parseVars, burstVars, batchVars, statsVars>>

----------------------------------------------------------------------------
(* Bounds *)

MaxBursts == 3
MaxSwipes == 3
MaxRows   == 3
MaxRecords == 3

----------------------------------------------------------------------------
(* Time helpers *)

SecondsPerDay == 24 * 3600

\* "HH:MM:SS" as seconds since midnight
T(h, m, s) == h * 3600 + m * 60 + s

\* Date at day d, time-of-day t
At(d, t) == d * SecondsPerDay + t

\* extractTime: the HH:MM:SS time of day of a Date
extractTime(date) == date % SecondsPerDay

\* extractDate: the calendar day of a Date (midnight of that day)
extractDate(date) == date \div SecondsPerDay

\* combineDateTime: Date on calendar day `date` at time-of-day `time`
combineDateTime(date, time) == date * SecondsPerDay + time

\* time.substring(0, 5): "HH:MM" of an "HH:MM:SS" string
Norm(time) == time \div 60

\* windowEndTime.split(':').map(Number)[0]
HourOf(time) == time \div 3600

Null      == "null"       \* shiftCode === null
Undefined == -1           \* checkOut === undefined

----------------------------------------------------------------------------
(* Shift templates *)

DEFAULT_SHIFT_CONFIGS ==
    [ A |-> [ name |-> "A",
              checkInStart  |-> T(5, 0, 0),   checkInEnd  |-> T(6, 35, 0),
              shiftStart    |-> T(6, 0, 0),
              checkInLateThreshold |-> T(6, 5, 0),
              checkOutStart |-> T(13, 30, 0), checkOutEnd |-> T(16, 0, 0),
              checkOutExpectedTime |-> T(14, 0, 0),
              breakOutExpectedTime |-> T(10, 0, 0),
              breakEndTime         |-> T(10, 30, 0),
              breakInLateThreshold |-> T(10, 35, 0) ],
      B |-> [ name |-> "B",
              checkInStart  |-> T(13, 0, 0),  checkInEnd  |-> T(14, 35, 0),
              shiftStart    |-> T(14, 0, 0),
              checkInLateThreshold |-> T(14, 5, 0),
              checkOutStart |-> T(21, 30, 0), checkOutEnd |-> T(0, 0, 0),
              checkOutExpectedTime |-> T(22, 0, 0),
              breakOutExpectedTime |-> T(18, 0, 0),
              breakEndTime         |-> T(18, 30, 0),
              breakInLateThreshold |-> T(18, 35, 0) ],
      C |-> [ name |-> "C",
              checkInStart  |-> T(21, 0, 0),  checkInEnd  |-> T(22, 35, 0),
              shiftStart    |-> T(22, 0, 0),
              checkInLateThreshold |-> T(22, 5, 0),
              checkOutStart |-> T(5, 30, 0),  checkOutEnd |-> T(8, 0, 0),
              checkOutExpectedTime |-> T(6, 0, 0),
              breakOutExpectedTime |-> T(2, 0, 0),
              breakEndTime         |-> T(2, 45, 0),
              breakInLateThreshold |-> T(2, 50, 0) ] ]

\* A rule.yaml that overrides the defaults ({...DEFAULT_SHIFT_CONFIGS, ...yaml}):
\* afternoon check-out search range 21:30-01:00, night check-in search range
\* 21:00-00:30.
YamlShiftConfigs ==
    [ DEFAULT_SHIFT_CONFIGS EXCEPT
        !.B = [ @ EXCEPT !.checkOutEnd = T(1, 0, 0) ],
        !.C = [ @ EXCEPT !.checkInEnd  = T(0, 30, 0) ] ]

ConfigNames == {"default", "yaml"}

\* this.config.shifts
Shifts(c) == IF c = "default" THEN DEFAULT_SHIFT_CONFIGS ELSE YamlShiftConfigs

\* Object.entries(config.shifts): insertion order of the shift codes
ShiftCodes == <<"A", "B", "C">>

----------------------------------------------------------------------------
(* Range checks *)

isTimeInNormalizedRange(time, start, end) ==
    IF start <= end
    THEN time >= start /\ time <= end
    ELSE time >= start \/ time <= end

isTimeInRange(time, start, end) ==
    isTimeInNormalizedRange(Norm(time), Norm(start), Norm(end))

\* mutant of findShiftCode: falls back to the first template instead of null
findShiftCode_Fallback(c, time) ==
    LET hit == { k \in 1..Len(ShiftCodes) :
                   isTimeInNormalizedRange(Norm(time),
                       Norm(Shifts(c)[ShiftCodes[k]].checkInStart),
                       Norm(Shifts(c)[ShiftCodes[k]].checkInEnd)) }
    IN IF hit = {} THEN ShiftCodes[1]
       ELSE ShiftCodes[CHOOSE k \in hit : \A m \in hit : k <= m]

\* first shift code, in template order, whose check-in range holds the time
findShiftCode(c, time) ==
    LET hit == { k \in 1..Len(ShiftCodes) :
                   isTimeInNormalizedRange(Norm(time),
                       Norm(Shifts(c)[ShiftCodes[k]].checkInStart),
                       Norm(Shifts(c)[ShiftCodes[k]].checkInEnd)) }
    IN IF hit = {} THEN Null
       ELSE ShiftCodes[CHOOSE k \in hit : \A m \in hit : k <= m]

\* classifyBursts: time and shiftCode of classification k
ClassTime(k) == extractTime(bursts[k].burstStart)
ClassCode(k) == findShiftCode(cfg, ClassTime(k))

\* mutant of calculateActivityWindowEnd: only the night shift extends to the
\* next day (a check-out end at hour 0 stays on the shift's own day)
calculateActivityWindowEnd_NightOnly(shiftDate, shiftCode, shiftConfig) ==
    IF shiftCode = "C"
    THEN combineDateTime(shiftDate + 1, shiftConfig.checkOutEnd)
    ELSE combineDateTime(shiftDate, shiftConfig.checkOutEnd)

calculateActivityWindowEnd(shiftDate, shiftCode, shiftConfig) ==
    LET windowEndTime    == shiftConfig.checkOutEnd
        hours            == HourOf(windowEndTime)
        extendsToNextDay == hours = 0 \/ shiftCode = "C"
    IN IF extendsToNextDay
       THEN combineDateTime(shiftDate + 1, windowEndTime)
       ELSE combineDateTime(shiftDate, windowEndTime)

RECURSIVE LatestFrom(_, _, _, _)
LatestFrom(bs, shiftConfig, k, latestCheckOut) ==
    IF k > Len(bs) THEN latestCheckOut
    ELSE LET burstEndTime == extractTime(bs[k].burstEnd)
             take == /\ isTimeInRange(burstEndTime, shiftConfig.checkOutStart,
                                      shiftConfig.checkOutEnd)
                     /\ (latestCheckOut = Undefined \/ bs[k].burstEnd > latestCheckOut)
         IN LatestFrom(bs, shiftConfig, k + 1,
                       IF take THEN bs[k].burstEnd ELSE latestCheckOut)

\* mutant of findLatestCheckOut: the end of the last assigned burst, whether or
\* not it lies in the check-out window
findLatestCheckOut_LastBurst(bs, shiftConfig) == bs[Len(bs)].burstEnd

findLatestCheckOut(bs, shiftConfig) == LatestFrom(bs, shiftConfig, 1, Undefined)

----------------------------------------------------------------------------
(* Part I: ShiftDetector.detectUserShifts *)

\* Times of day at which a burst of the employee may start, with the burst's
\* length in seconds (burstEnd - burstStart).
BurstTimes ==
    { <<T(0, 0, 30), 0>>,  <<T(0, 10, 0), 0>>,   <<T(5, 0, 0), 0>>,
      <<T(5, 45, 0), 60>>, <<T(8, 0, 30), 0>>,   <<T(10, 0, 0), 0>>,
      <<T(13, 29, 30), 60>>, <<T(13, 45, 0), 0>>, <<T(16, 0, 30), 0>>,
      <<T(21, 0, 0), 0>>,  <<T(21, 45, 0), 60>>, <<T(22, 40, 0), 0>>,
      <<T(23, 59, 30), 60>> }

Days == {0, 1}

\* The bursts BurstDetector may hand over for one employee
BurstPool ==
    { [burstStart |-> At(d, bt[1]), burstEnd |-> At(d, bt[1]) + bt[2]] :
        d \in Days, bt \in BurstTimes }

\* userBursts.sort((a, b) => a.burstStart - b.burstStart): bursts of one
\* employee are disjoint, so after the sort starts strictly increase
SortedBurstLists ==
    { bs \in UNION { [1..n -> BurstPool] : n \in 0..MaxBursts } :
        \A k \in 1..(Len(bs) - 1) : bs[k].burstEnd < bs[k + 1].burstStart }

NotRun == [status |-> "not run"]

\* the parts of the pipeline that a specification does not exercise
ShiftIdle ==
    /\ cfg = "default"
    /\ bursts = <<>>
    /\ assigned = <<>>
    /\ visits = <<>>
    /\ i = 1
    /\ j = 1
    /\ pc = "idle"
    /\ windowEnd = 0
    /\ assignedBursts = <<>>
    /\ shiftInstances = <<>>
    /\ earlier = NotRun

StatusIdle ==
    /\ input = NotRun
    /\ resultV2 = NotRun
    /\ resultV1 = NotRun
    /\ calc = NotRun
    /\ record = NotRun
    /\ deviationData = NotRun

ParseIdle ==
    /\ written = NotRun
    /\ statusText = ""
    /\ flags = NotRun
    /\ missedPunch = NotRun

BurstIdle ==
    /\ swipeInput = <<>>
    /\ userGroups = <<>>
    /\ userSwipes = <<>>
    /\ si = 1
    /\ currentBurst = <<>>
    /\ userBursts = <<>>
    /\ detected = <<>>
    /\ bpc = "idle"

StatsIdle ==
    /\ records = <<>>
    /\ userStats = NotRun
    /\ summary = NotRun

BatchIdle ==
    /\ sheet = <<>>
    /\ rawData = <<>>
    /\ ri = 0
    /\ swipes = <<>>
    /\ warnings = <<>>
    /\ filteredByStatus = 0
    /\ filteredByUser = 0
    /\ stagesRun = <<>>
    /\ response = NotRun
    /\ stage = "idle"

InitShift ==
    /\ cfg \in ConfigNames
    /\ bursts \in SortedBurstLists
    /\ assigned = [k \in 1..Len(bursts) |-> FALSE]
    /\ visits = [k \in 1..Len(bursts) |-> [scanned |-> 0, marked |-> 0]]
    /\ i = 1
    /\ j = 1
    /\ pc = "outer"
    /\ windowEnd = 0
    /\ assignedBursts = <<>>
    /\ shiftInstances = <<>>
    /\ earlier = NotRun
    /\ StatusIdle
    /\ ParseIdle
    /\ BurstIdle
    /\ BatchIdle
    /\ StatsIdle

\* mutant of SkipCurrent: the assigned flag is not consulted
SkipCurrent_IgnoresAssigned(shiftCode, isAssigned) == shiftCode = Null

\* if (!current.shiftCode || current.assigned) continue;
SkipCurrent(shiftCode, isAssigned) == shiftCode = Null \/ isAssigned

\* mutant of atOrAfterCheckoutStart: every time of day counts as at or after
atOrAfterCheckoutStart_Always(candTime, shiftConfig) == TRUE

\* mutant of OutsideWindow: the activity window never ends
OutsideWindow_Never(burstStart, wEnd) == FALSE

\* if (candidate.burst.burstStart > windowEnd) break;
OutsideWindow(burstStart, wEnd) == burstStart > wEnd

\* mutant of inCurrentCheckout: no candidate counts as a check-out
inCurrentCheckout_Never(candTime, shiftConfig) == FALSE

\* inCurrentCheckout
inCurrentCheckout(candTime, shiftConfig) ==
    isTimeInRange(candTime, shiftConfig.checkOutStart, shiftConfig.checkOutEnd)

\* atOrAfterCheckoutStart, against the open instance's own check-out window
atOrAfterCheckoutStart(candTime, shiftConfig) ==
    LET candidateTimeNorm == Norm(candTime)
        checkOutStartNorm == Norm(shiftConfig.checkOutStart)
        checkOutEndNorm   == Norm(shiftConfig.checkOutEnd)
        crossesMidnight   == checkOutStartNorm > checkOutEndNorm
    IN IF crossesMidnight
       THEN candidateTimeNorm >= checkOutStartNorm \/ candidateTimeNorm <= checkOutEndNorm
       ELSE candidateTimeNorm >= checkOutStartNorm

\* mutant of isDifferentShift: no check-out priority
isDifferentShift_NoCheckoutPriority(candTime, candCode, curCode, shiftConfig, ii, jj) ==
    /\ atOrAfterCheckoutStart(candTime, shiftConfig)
    /\ jj > ii
    /\ candCode # Null
    /\ candCode # curCode

\* isDifferentShift for candidate (time, code) seen from the instance opened
\* with curCode at outer index ii, inner index jj
isDifferentShift(candTime, candCode, curCode, shiftConfig, ii, jj) ==
    /\ ~inCurrentCheckout(candTime, shiftConfig)
    /\ atOrAfterCheckoutStart(candTime, shiftConfig)
    /\ jj > ii
    /\ candCode # Null
    /\ candCode # curCode

\* The instance pushed when the forward scan ends (nothing when no burst was
\* assigned): if (assignedBursts.length > 0) shiftInstances.push({...})
CreatedInstances(insts, abs, curCode, curStart, shiftConfig) ==
    IF Len(abs) > 0
    THEN Append(insts,
                [ shiftCode |-> curCode,
                  shiftDate |-> extractDate(curStart),
                  checkIn   |-> abs[1].burstStart,
                  checkOut  |-> findLatestCheckOut(abs, shiftConfig),
                  bursts    |-> abs ])
    ELSE insts

CurConfig == Shifts(cfg)[ClassCode(i)]

\* outer loop: the burst has no shift code or is already assigned
SkipBurst ==
    /\ pc = "outer"
    /\ i <= Len(bursts)
    /\ SkipCurrent(ClassCode(i), assigned[i])
    /\ i' = i + 1
    /\ UNCHANGED <<cfg, bursts, assigned, j, pc, windowEnd, assignedBursts,
                   shiftInstances, visits, earlier, statusVars,
                   parseVars, burstVars, batchVars, statsVars>>

\* outer loop: an unassigned burst with a shift code opens an instance
OpenInstance ==
    /\ pc = "outer"
    /\ i <= Len(bursts)
    /\ ~SkipCurrent(ClassCode(i), assigned[i])
    /\ windowEnd' = calculateActivityWindowEnd(extractDate(bursts[i].burstStart),
                                               ClassCode(i), CurConfig)
    /\ assignedBursts' = <<>>
    /\ j' = i
    /\ pc' = "inner"
    /\ UNCHANGED <<cfg, bursts, assigned, i, shiftInstances, visits, earlier, statusVars,
                   parseVars, burstVars, batchVars, statsVars>>

\* leaving the inner loop: create the instance, then the outer i++
CloseInstance ==
    /\ shiftInstances' = CreatedInstances(shiftInstances, assignedBursts, ClassCode(i),
                                          bursts[i].burstStart, CurConfig)
    /\ i' = i + 1
    /\ pc' = "outer"
    /\ UNCHANGED <<cfg, bursts, assigned, j, windowEnd, assignedBursts,
                   earlier, statusVars,
                   parseVars, burstVars, batchVars, statsVars>>

\* inner loop: the candidate starts after the activity window end
WindowBreak ==
    /\ pc = "inner"
    /\ j <= Len(bursts)
    /\ OutsideWindow(bursts[j].burstStart, windowEnd)
    /\ visits' = [visits EXCEPT ![j].scanned = @ + 1]
    /\ CloseInstance

\* inner loop: the candidate starts a different shift
DifferentShiftBreak ==
    /\ pc = "inner"
    /\ j <= Len(bursts)
    /\ ~OutsideWindow(bursts[j].burstStart, windowEnd)
    /\ isDifferentShift(ClassTime(j), ClassCode(j), ClassCode(i), CurConfig, i, j)
    /\ visits' = [visits EXCEPT ![j].scanned = @ + 1]
    /\ CloseInstance

\* inner loop: the candidate is assigned to the open instance
AssignBurst ==
    /\ pc = "inner"
    /\ j <= Len(bursts)
    /\ ~OutsideWindow(bursts[j].burstStart, windowEnd)
    /\ ~isDifferentShift(ClassTime(j), ClassCode(j), ClassCode(i), CurConfig, i, j)
    /\ assignedBursts' = Append(assignedBursts, bursts[j])
    /\ assigned' = [assigned EXCEPT ![j] = TRUE]
    /\ visits' = [visits EXCEPT ![j] = [scanned |-> @.scanned + 1, marked |-> @.marked + 1]]
    /\ j' = j + 1
    /\ UNCHANGED <<cfg, bursts, i, pc, windowEnd, shiftInstances, earlier, statusVars,
                   parseVars, burstVars, batchVars, statsVars>>

\* inner loop: the burst list is exhausted
ScanEnd ==
    /\ pc = "inner"
    /\ j > Len(bursts)
    /\ visits' = visits
    /\ CloseInstance

\* outer loop exhausted: return shiftInstances
Finish ==
    /\ pc = "outer"
    /\ i > Len(bursts)
    /\ pc' = "done"
    /\ UNCHANGED <<cfg, bursts, assigned, i, j, windowEnd, assignedBursts,
                   shiftInstances, visits, earlier, statusVars,
                   parseVars, burstVars, batchVars, statsVars>>

\* calculateActivityWindowEnd of the earlier implementation
earlierActivityWindowEnd(shiftDate, shiftCode, shiftConfig) ==
    IF shiftCode = "C"
    THEN combineDateTime(shiftDate + 1, shiftConfig.checkOutEnd)
    ELSE combineDateTime(shiftDate, shiftConfig.checkOutEnd)

\* wouldStartDifferentShift of the earlier implementation
wouldStartDifferentShift(c, candTime, shiftCode, shiftConfig, ii, jj) ==
    /\ ~isTimeInRange(candTime, shiftConfig.checkOutStart, shiftConfig.checkOutEnd)
    /\ jj > ii
    /\ \E k \in 1..Len(ShiftCodes) :
          /\ ShiftCodes[k] # shiftCode
          /\ isTimeInNormalizedRange(Norm(candTime),
                 Norm(Shifts(c)[ShiftCodes[k]].checkInStart),
                 Norm(Shifts(c)[ShiftCodes[k]].checkInEnd))

\* inner while loop of the earlier implementation: the value of j when it ends
RECURSIVE earlierScan(_, _, _, _, _, _)
earlierScan(c, bs, ii, jj, wEnd, shiftCode) ==
    IF jj > Len(bs) THEN jj
    ELSE IF bs[jj].burstStart > wEnd THEN jj
    ELSE IF wouldStartDifferentShift(c, extractTime(bs[jj].burstStart), shiftCode,
                                     Shifts(c)[shiftCode], ii, jj)
         THEN jj
    ELSE earlierScan(c, bs, ii, jj + 1, wEnd, shiftCode)

\* outer while loop of the earlier implementation from index ii on.  After
\* the inner loop `i = j`: when the inner loop stopped at its first candidate
\* (j = i) the outer loop is back in the same state and never ends.
RECURSIVE earlierDetectUserShifts(_, _, _, _)
earlierDetectUserShifts(c, bs, ii, insts) ==
    IF ii > Len(bs) THEN [terminates |-> TRUE, shiftInstances |-> insts]
    ELSE LET shiftCode == findShiftCode(c, extractTime(bs[ii].burstStart))
         IN IF shiftCode = Null
            THEN earlierDetectUserShifts(c, bs, ii + 1, insts)
            ELSE LET shiftConfig == Shifts(c)[shiftCode]
                     wEnd == earlierActivityWindowEnd(extractDate(bs[ii].burstStart),
                                                      shiftCode, shiftConfig)
                     jj   == earlierScan(c, bs, ii, ii, wEnd, shiftCode)
                 IN IF jj = ii
                    THEN [terminates |-> FALSE, shiftInstances |-> insts]
                    ELSE earlierDetectUserShifts(c, bs, jj,
                             CreatedInstances(insts, SubSeq(bs, ii, jj - 1), shiftCode,
                                              bs[ii].burstStart, shiftConfig))

\* the earlier implementation is run on the same bursts and templates
RunEarlier ==
    /\ pc = "done"
    /\ earlier = NotRun
    /\ earlier' = earlierDetectUserShifts(cfg, bursts, 1, <<>>)
    /\ UNCHANGED <<cfg, bursts, assigned, i, j, pc, windowEnd, assignedBursts,
                   shiftInstances, visits, statusVars, parseVars, burstVars, batchVars, statsVars>>

NextShift ==
    \/ RunEarlier
    \/ SkipBurst
    \/ OpenInstance
    \/ WindowBreak
    \/ DifferentShiftBreak
    \/ AssignBurst
    \/ ScanEnd
    \/ Finish

SpecShift == InitShift /\ [][NextShift]_vars

----------------------------------------------------------------------------
(* Part II: deviation and quality evaluation *)

\* A `string | null` timestamp argument is modelled by its rank in JavaScript's
\* string order: '' sorts before '   ' (whitespace only), which sorts before
\* every "HH:MM:SS" (a digit follows the blank in code-unit order); a time of
\* day is its number of seconds; null has a rank of its own and is never
\* compared.
NullV  == -3
EmptyV == -2
BlankV == -1

\* mutant of IsFalsy: only null counts as absent
IsFalsy_NullOnly(v) == v = NullV

\* !x for x: string | null
IsFalsy(v) == v = NullV \/ v = EmptyV

\* mutant of IsNullOrEmpty: the empty string counts as present
IsNullOrEmpty_NullOnly(v) == v = NullV

\* x === null || x === ''
IsNullOrEmpty(v) == v = NullV \/ v = EmptyV

\* mutant of StrLess: the comparison includes equality
StrLess_Inclusive(a, b) == a <= b

\* a >= b and a < b on strings
StrGeq(a, b)  == a >= b
StrLess(a, b) == a < b

\* str.indexOf(pat) + 1: first position of pat in str, 0 when absent
IndexOf(str, pat) ==
    LET hits == { k \in 1..(Len(str) - Len(pat) + 1) :
                    SubSeq(str, k, k + Len(pat) - 1) = pat }
    IN IF hits = {} THEN 0 ELSE CHOOSE k \in hits : \A m \in hits : k <= m

\* str.includes(pat)
Contains(str, pat) == IndexOf(str, pat) > 0

\* array.join(sep)
RECURSIVE Join(_, _)
Join(seq, sep) ==
    IF Len(seq) = 0 THEN ""
    ELSE IF Len(seq) = 1 THEN seq[1]
    ELSE seq[1] \o sep \o Join(Tail(seq), sep)

\* array.filter(Boolean) on a list of (condition, element) pairs
RECURSIVE Keep(_)
Keep(pairs) ==
    IF Len(pairs) = 0 THEN <<>>
    ELSE (IF pairs[1][1] THEN <<pairs[1][2]>> ELSE <<>>) \o Keep(Tail(pairs))

\* determineShiftStatus (strict policy)
determineShiftStatus(checkInTime, breakOutTime, breakInTime, checkOutTime, shiftConfig) ==
    LET deviations == Keep(<<
            << ~IsFalsy(checkInTime)
                 /\ StrGeq(checkInTime, shiftConfig.checkInLateThreshold),
               "Late Check-in" >>,
            << ~IsFalsy(breakOutTime)
                 /\ StrLess(breakOutTime, shiftConfig.breakOutExpectedTime),
               "Leave Soon Break Out" >>,
            << ~IsFalsy(breakInTime)
                 /\ StrGeq(breakInTime, shiftConfig.breakInLateThreshold),
               "Late Break In" >>,
            << ~IsFalsy(checkOutTime)
                 /\ StrLess(checkOutTime, shiftConfig.checkOutExpectedTime),
               "Leave Soon Check Out" >> >>)
    IN IF Len(deviations) > 0 THEN Join(deviations, ", ") ELSE "On Time"

UpperCase == { "A", "B", "C", "D", "E", "F", "G", "H", "I", "J", "K", "L", "M",
               "N", "O", "P", "Q", "R", "S", "T", "U", "V", "W", "X", "Y", "Z" }

\* ch.toUpperCase() for the letters field names start with
ToUpperCase(ch) ==
    CASE ch = "b" -> "B"
      [] ch = "c" -> "C"
      [] OTHER    -> ch

\* s.replace(/([A-Z])/g, ' $1')
RECURSIVE SpaceBeforeCapitals(_)
SpaceBeforeCapitals(str) ==
    IF Len(str) = 0 THEN ""
    ELSE LET ch == SubSeq(str, 1, 1)
         IN (IF ch \in UpperCase THEN " " \o ch ELSE ch)
              \o SpaceBeforeCapitals(SubSeq(str, 2, Len(str)))

\* mutant of FieldLabel: no blank is put before the inner capital
FieldLabel_NoBlank(field) ==
    ToUpperCase(SubSeq(field, 1, 1)) \o SubSeq(field, 2, Len(field))

\* mt.field.charAt(0).toUpperCase() + mt.field.slice(1).replace(/([A-Z])/g, ' $1')
FieldLabel(field) ==
    ToUpperCase(SubSeq(field, 1, 1)) \o SpaceBeforeCapitals(SubSeq(field, 2, Len(field)))

\* mutant of DeviationsV2: break-in is late only strictly after the threshold
DeviationsV2_StrictBreakIn(checkInTime, breakOutTime, breakInTime, checkOutTime, shiftConfig) ==
    Keep(<<
        << StrGeq(checkInTime, shiftConfig.checkInLateThreshold), "Late Check-in" >>,
        << ~IsNullOrEmpty(breakOutTime)
             /\ StrLess(breakOutTime, shiftConfig.breakOutExpectedTime),
           "Leave Soon Break Out" >>,
        << ~IsNullOrEmpty(breakInTime)
             /\ StrLess(shiftConfig.breakInLateThreshold, breakInTime),
           "Late Break In" >>,
        << ~IsNullOrEmpty(checkOutTime)
             /\ StrLess(checkOutTime, shiftConfig.checkOutExpectedTime),
           "Leave Soon Check Out" >> >>)

\* steps 2-5 of determineShiftStatusV2: the deviation labels
DeviationsV2(checkInTime, breakOutTime, breakInTime, checkOutTime, shiftConfig) ==
    Keep(<<
        << StrGeq(checkInTime, shiftConfig.checkInLateThreshold), "Late Check-in" >>,
        << ~IsNullOrEmpty(breakOutTime)
             /\ StrLess(breakOutTime, shiftConfig.breakOutExpectedTime),
           "Leave Soon Break Out" >>,
        << ~IsNullOrEmpty(breakInTime)
             /\ StrGeq(breakInTime, shiftConfig.breakInLateThreshold),
           "Late Break In" >>,
        << ~IsNullOrEmpty(checkOutTime)
             /\ StrLess(checkOutTime, shiftConfig.checkOutExpectedTime),
           "Leave Soon Check Out" >> >>)

\* steps 3-5 of determineShiftStatusV2: the missing-timestamp entries
MissingV2(breakOutTime, breakInTime, checkOutTime, shiftConfig) ==
    Keep(<<
        << IsNullOrEmpty(breakOutTime),
           [field |-> "breakOut", expectedTime |-> shiftConfig.breakOutExpectedTime,
            severity |-> "low"] >>,
        << IsNullOrEmpty(breakInTime),
           [field |-> "breakIn", expectedTime |-> shiftConfig.breakEndTime,
            severity |-> "medium"] >>,
        << IsNullOrEmpty(checkOutTime),
           [field |-> "checkOut", expectedTime |-> shiftConfig.checkOutExpectedTime,
            severity |-> "high"] >> >>)

\* step 6: the status string
StatusV2(deviations, missingTimestamps) ==
    LET status == IF Len(deviations) > 0 THEN Join(deviations, ", ") ELSE "On Time"
        missingFields ==
            Join([k \in 1..Len(missingTimestamps) |->
                     FieldLabel(missingTimestamps[k].field)], ", ")
    IN IF Len(missingTimestamps) > 0
       THEN status \o " [Missing: " \o missingFields \o "]"
       ELSE status

\* Math.round(num / den) for den > 0: floor(num / den + 1/2)
MathRound(num, den) == (2 * num + den) \div (2 * den)

\* step 7: Math.round((presentTimestamps / totalTimestamps) * 100)
totalTimestamps == 4
\* mutant of CompletenessV2: check-in is not counted among the present ones
CompletenessV2_OffByOne(missingTimestamps) ==
    MathRound((totalTimestamps - 1 - Len(missingTimestamps)) * 100, totalTimestamps)

CompletenessV2(missingTimestamps) ==
    LET presentTimestamps == totalTimestamps - Len(missingTimestamps)
    IN MathRound(presentTimestamps * 100, totalTimestamps)

\* step 8: dataQuality
DataQualityV2(completenessPercentage) ==
    IF completenessPercentage = 100 THEN "complete"
    ELSE IF completenessPercentage >= 75 THEN "partial"
    ELSE "critical"

\* mutant of RequiresReviewV2: a partial record never requires review
RequiresReviewV2_PartialNever(completenessPercentage, missingTimestamps) ==
    completenessPercentage < 75

\* step 8: requiresReview
RequiresReviewV2(completenessPercentage, missingTimestamps) ==
    IF completenessPercentage = 100 THEN FALSE
    ELSE IF completenessPercentage >= 75
         THEN \E k \in 1..Len(missingTimestamps) : missingTimestamps[k].field = "checkOut"
    ELSE TRUE

\* step 1: the result returned when checkIn is missing
InvalidNoCheckIn(shiftConfig) ==
    [ status |-> "INVALID - No Check-In",
      missingTimestamps |-> << [field |-> "checkIn",
                                expectedTime |-> shiftConfig.shiftStart,
                                severity |-> "high"] >>,
      requiresReview |-> TRUE,
      completenessPercentage |-> 0,
      dataQuality |-> "critical" ]

\* determineShiftStatusV2 (tolerant policy)
determineShiftStatusV2(checkInTime, breakOutTime, breakInTime, checkOutTime, shiftConfig) ==
    IF IsFalsy(checkInTime)
    THEN InvalidNoCheckIn(shiftConfig)
    ELSE LET deviations == DeviationsV2(checkInTime, breakOutTime, breakInTime,
                                        checkOutTime, shiftConfig)
             missingTimestamps == MissingV2(breakOutTime, breakInTime, checkOutTime,
                                            shiftConfig)
             completenessPercentage == CompletenessV2(missingTimestamps)
         IN [ status |-> StatusV2(deviations, missingTimestamps),
              missingTimestamps |-> missingTimestamps,
              requiresReview |-> RequiresReviewV2(completenessPercentage,
                                                  missingTimestamps),
              completenessPercentage |-> completenessPercentage,
              dataQuality |-> DataQualityV2(completenessPercentage) ]

\* helper calculateCompletenessPercentage(missingCount, totalCount = 4)
calculateCompletenessPercentage(missingCount, totalCount) ==
    MathRound((totalCount - missingCount) * 100, totalCount)

\* helper determineDataQuality(completenessPercentage)
determineDataQuality(completenessPercentage) ==
    IF completenessPercentage = 100 THEN "complete"
    ELSE IF completenessPercentage >= 75 THEN "partial"
    ELSE "critical"

\* mutant of determineQuality: half-complete records count as partial
determineQuality_PartialFromHalf(percentage) ==
    IF percentage = 100 THEN "complete"
    ELSE IF percentage >= 50 THEN "partial"
    ELSE "critical"

\* completeness calculator: determineQuality(percentage)
determineQuality(percentage) ==
    IF percentage = 100 THEN "complete"
    ELSE IF percentage >= 75 THEN "partial"
    ELSE "critical"

\* completeness calculator: requiresReviewFlag(hasCheckIn, hasCheckOut, percentage)
requiresReviewFlag(hasCheckIn, hasCheckOut, percentage) ==
    IF ~hasCheckIn THEN TRUE
    ELSE IF percentage < 75 THEN TRUE
    ELSE IF ~hasCheckOut THEN TRUE
    ELSE FALSE

\* completeness calculator: calculateCompleteness(four presence flags)
calculateCompleteness(checkInPresent, breakOutPresent, breakInPresent, checkOutPresent) ==
    LET totalCount   == 4
        presentCount == Len(Keep(<< <<checkInPresent, TRUE>>, <<breakOutPresent, TRUE>>,
                                    <<breakInPresent, TRUE>>, <<checkOutPresent, TRUE>> >>))
        percentage   == MathRound(presentCount * 100, totalCount)
    IN [ percentage     |-> percentage,
         quality        |-> determineQuality(percentage),
         requiresReview |-> requiresReviewFlag(checkInPresent, checkOutPresent, percentage),
         presentCount   |-> presentCount,
         totalCount     |-> totalCount,
         missingFields  |-> Keep(<< <<~checkInPresent, "checkIn">>,
                                    <<~breakOutPresent, "breakOut">>,
                                    <<~breakInPresent, "breakIn">>,
                                    <<~checkOutPresent, "checkOut">> >>) ]

\* completeness calculator: calculateCompletenessFromMissing(missingTimestamps, hasCheckIn)
calculateCompletenessFromMissing(missingTimestamps, hasCheckIn) ==
    LET totalCount   == 4
        missingCount == Len(missingTimestamps)
        fields       == [k \in 1..Len(missingTimestamps) |-> missingTimestamps[k].field]
        presentCount == totalCount - missingCount
        percentage   == MathRound(presentCount * 100, totalCount)
    IN IF ~hasCheckIn
       THEN [ percentage     |-> 0,
              quality        |-> "critical",
              requiresReview |-> TRUE,
              presentCount   |-> 0,
              totalCount     |-> totalCount,
              missingFields  |-> <<"checkIn">> \o fields ]
       ELSE [ percentage     |-> percentage,
              quality        |-> determineQuality(percentage),
              requiresReview |->
                  requiresReviewFlag(TRUE,
                      ~(\E k \in 1..Len(missingTimestamps) :
                            missingTimestamps[k].field = "checkOut"),
                      percentage),
              presentCount   |-> presentCount,
              totalCount     |-> totalCount,
              missingFields  |-> fields ]

----------------------------------------------------------------------------
(* Part III: the deviation parser, on strings *)

NoFlags ==
    [ checkInLate |-> FALSE, breakOutEarly |-> FALSE, breakInLate |-> FALSE,
      checkOutEarly |-> FALSE, hasMissingTimestamps |-> FALSE ]

\* mutant of parseDeviations: any "Leave Soon" counts as an early check-out
parseDeviations_AnyLeaveSoon(status) ==
    IF status = "" \/ status = "On Time" THEN NoFlags
    ELSE [ checkInLate   |-> Contains(status, "Late Check-in")
                               \/ Contains(status, "Check-in Late"),
           breakOutEarly |-> Contains(status, "Leave Soon Break Out")
                               \/ Contains(status, "Break Out Early"),
           breakInLate   |-> Contains(status, "Late Break In")
                               \/ Contains(status, "Break In Late"),
           checkOutEarly |-> Contains(status, "Leave Soon Check Out")
                               \/ Contains(status, "Check Out Early")
                               \/ Contains(status, "Leave Soon"),
           hasMissingTimestamps |-> Contains(status, "[Missing:") ]

\* parseDeviations(status)
parseDeviations(status) ==
    IF status = "" \/ status = "On Time" THEN NoFlags
    ELSE [ checkInLate   |-> Contains(status, "Late Check-in")
                               \/ Contains(status, "Check-in Late"),
           breakOutEarly |-> Contains(status, "Leave Soon Break Out")
                               \/ Contains(status, "Break Out Early"),
           breakInLate   |-> Contains(status, "Late Break In")
                               \/ Contains(status, "Break In Late"),
           checkOutEarly |-> Contains(status, "Leave Soon Check Out")
                               \/ Contains(status, "Check Out Early")
                               \/ ( /\ Contains(status, "Leave Soon")
                                    /\ ~Contains(status, "Break Out")
                                    /\ ~Contains(status, "Check Out")
                                    /\ ~Contains(status, "Break In") ),
           hasMissingTimestamps |-> Contains(status, "[Missing:") ]

\* getDeviationText(deviationFlags, deviationType)
getDeviationText(deviationFlags, deviationType) ==
    CASE deviationType = "checkIn"  -> IF deviationFlags.checkInLate THEN "Late" ELSE ""
      [] deviationType = "breakOut" -> IF deviationFlags.breakOutEarly THEN "Early" ELSE ""
      [] deviationType = "breakIn"  -> IF deviationFlags.breakInLate THEN "Late" ELSE ""
      [] deviationType = "checkOut" -> IF deviationFlags.checkOutEarly THEN "Early" ELSE ""
      [] OTHER -> ""

\* position of the first "]" at or after position from, Len(str) + 1 when none
FirstCloser(str, from) ==
    LET at == { k \in from..Len(str) : SubSeq(str, k, k) = "]" }
    IN IF at = {} THEN Len(str) + 1 ELSE CHOOSE k \in at : \A m \in at : k <= m

\* mutant of MatchesAt: the end of the string closes the bracket as well
MatchesAt_EndCloses(str, k) ==
    /\ SubSeq(str, k, k + 9) = "[Missing: "
    /\ FirstCloser(str, k + 10) > k + 10

\* /\[Missing: ([^\]]+)\]/ matches at position k: the opener, then one or more
\* characters other than "]", then "]"
MatchesAt(str, k) ==
    /\ SubSeq(str, k, k + 9) = "[Missing: "
    /\ FirstCloser(str, k + 10) > k + 10
    /\ FirstCloser(str, k + 10) <= Len(str)

\* status.match(/\[Missing: ([^\]]+)\]/): group 1 of the leftmost match, as a
\* one-element list, or the empty list when there is no match
MissingMatch(str) ==
    LET at == { k \in 1..(Len(str) - 9) : MatchesAt(str, k) }
    IN IF at = {} THEN <<>>
       ELSE LET k == CHOOSE n \in at : \A m \in at : n <= m
            IN << SubSeq(str, k + 10, FirstCloser(str, k + 10) - 1) >>

\* str.trim(), for blanks
RECURSIVE Trim(_)
Trim(str) ==
    IF Len(str) = 0 THEN ""
    ELSE IF SubSeq(str, 1, 1) = " " THEN Trim(SubSeq(str, 2, Len(str)))
    ELSE IF SubSeq(str, Len(str), Len(str)) = " " THEN Trim(SubSeq(str, 1, Len(str) - 1))
    ELSE str

\* str.split(',')
RECURSIVE Split(_)
Split(str) ==
    LET at == IndexOf(str, ",")
    IN IF at = 0 THEN << str >>
       ELSE << SubSeq(str, 1, at - 1) >> \o Split(SubSeq(str, at + 1, Len(str)))

\* the switch of getMissedPunch
Abbreviate(item) ==
    CASE item = "Check In"  -> "CI"
      [] item = "Check Out" -> "CO"
      [] item = "Break Out" -> "BTO"
      [] item = "Break In"  -> "BTI"
      [] OTHER -> item

\* getMissedPunch(status)
getMissedPunch(status) ==
    IF status = "" \/ ~Contains(status, "[Missing:") THEN ""
    ELSE LET missingMatch == MissingMatch(status)
         IN IF Len(missingMatch) > 0 /\ missingMatch[1] # ""
            THEN LET parts        == Split(Trim(missingMatch[1]))
                     missingItems == [k \in 1..Len(parts) |-> Trim(parts[k])]
                     abbreviatedItems ==
                         [k \in 1..Len(missingItems) |-> Abbreviate(missingItems[k])]
                 IN Join(abbreviatedItems, ", ")
            ELSE ""

\* mutant of isDeviationRecord: only "Late" counts as a time deviation
isDeviationRecord_LateOnly(featureOn, status, requiresReview) ==
    LET hasDeviation == Contains(status, "Late")
        needsReview  == featureOn /\ requiresReview = TRUE
    IN hasDeviation \/ needsReview

\* the predicate of attendanceRecords.filter(...) in STEP 5
isDeviationRecord(featureOn, status, requiresReview) ==
    LET hasDeviation == Contains(status, "Late") \/ Contains(status, "Soon")
        needsReview  == featureOn /\ requiresReview = TRUE
    IN hasDeviation \/ needsReview

----------------------------------------------------------------------------
(* Specification of the evaluator *)

\* Values a timestamp argument takes: null, '', whitespace only, the second
\* before its threshold, the threshold itself, and half a minute past midnight
ArgValues(threshold) == { NullV, EmptyV, BlankV, threshold - 1, threshold, T(0, 0, 30) }

\* absent optional fields as the strict caller passes them: ''
AsEmpty(v) == IF v = NullV THEN EmptyV ELSE v

InitStatus ==
    /\ \E code \in {"A", "B", "C"} :
         LET sc == DEFAULT_SHIFT_CONFIGS[code]
         IN \E ci \in ArgValues(sc.checkInLateThreshold),
               bo \in ArgValues(sc.breakOutExpectedTime),
               bi \in ArgValues(sc.breakInLateThreshold),
               co \in ArgValues(sc.checkOutExpectedTime) :
              input = [ shift |-> code, checkIn |-> ci, breakOut |-> bo,
                        breakIn |-> bi, checkOut |-> co ]
    /\ resultV2 = NotRun
    /\ resultV1 = NotRun
    /\ calc = NotRun
    /\ record = NotRun
    /\ deviationData = NotRun
    /\ ShiftIdle
    /\ ParseIdle
    /\ BurstIdle
    /\ BatchIdle
    /\ StatsIdle

InputConfig == DEFAULT_SHIFT_CONFIGS[input.shift]

\* the tolerant policy is applied to the input
RunTolerant ==
    /\ resultV2 = NotRun
    /\ resultV2' = determineShiftStatusV2(input.checkIn, input.breakOut, input.breakIn,
                                          input.checkOut, InputConfig)
    /\ UNCHANGED <<shiftVars, parseVars, burstVars, batchVars, input, resultV1, calc, record,
                   deviationData, statsVars>>

\* the strict policy is applied to the input, absent fields passed as ''
RunStrict ==
    /\ resultV1 = NotRun
    /\ resultV1' = [status |-> determineShiftStatus(AsEmpty(input.checkIn),
                                   AsEmpty(input.breakOut), AsEmpty(input.breakIn),
                                   AsEmpty(input.checkOut), InputConfig)]
    /\ UNCHANGED <<shiftVars, parseVars, burstVars, batchVars, input, resultV2, calc, record,
                   deviationData, statsVars>>

\* the completeness calculator and the exported helpers are applied to the
\* presence of the four input fields and to the optional fields' missing list
RunCalculator ==
    /\ calc = NotRun
    /\ \E hasCheckIn \in BOOLEAN :
         LET missing == MissingV2(input.breakOut, input.breakIn, input.checkOut,
                                  InputConfig)
             pct     == calculateCompletenessPercentage(Len(missing), 4)
         IN calc' = [ direct |-> calculateCompleteness(~IsFalsy(input.checkIn),
                                     ~IsFalsy(input.breakOut), ~IsFalsy(input.breakIn),
                                     ~IsFalsy(input.checkOut)),
                      fromMissing |-> calculateCompletenessFromMissing(missing, hasCheckIn),
                      helper |-> [ percentage |-> pct,
                                   quality    |-> determineDataQuality(pct) ] ]
    /\ UNCHANGED <<shiftVars, parseVars, burstVars, batchVars, input, resultV2,
                   resultV1, record, deviationData, statsVars>>

\* the deviation columns of the attendance record are filled from the status
\* of the policy the feature flag selects
BuildRecord ==
    /\ record = NotRun
    /\ \E policy \in {"v2", "stable"} :
         /\ policy = "v2" => resultV2 # NotRun
         /\ policy = "stable" => resultV1 # NotRun
         /\ LET status == IF policy = "v2" THEN resultV2.status ELSE resultV1.status
                deviationFlags == parseDeviations(status)
            IN record' = [ policy        |-> policy,
                           status        |-> status,
                           checkInLate   |-> getDeviationText(deviationFlags, "checkIn"),
                           breakOutEarly |-> getDeviationText(deviationFlags, "breakOut"),
                           breakInLate   |-> getDeviationText(deviationFlags, "breakIn"),
                           checkOutEarly |-> getDeviationText(deviationFlags, "checkOut"),
                           missedPunch   |-> getMissedPunch(status) ]
    /\ UNCHANGED <<shiftVars, parseVars, burstVars, batchVars, input, resultV2,
                   resultV1, calc, deviationData, statsVars>>

\* STEP 5 applied to the record of the same shift instance under either
\* setting of the feature flag; the stable record carries no requiresReview
FilterDeviations ==
    /\ deviationData = NotRun
    /\ resultV1 # NotRun
    /\ resultV2 # NotRun
    /\ deviationData' =
          [ stable |-> isDeviationRecord(FALSE, resultV1.status, FALSE),
            v2     |-> isDeviationRecord(TRUE, resultV2.status, resultV2.requiresReview) ]
    /\ UNCHANGED <<shiftVars, parseVars, burstVars, batchVars, input, resultV2,
                   resultV1, calc, record, statsVars>>

NextStatus ==
    \/ RunTolerant
    \/ RunStrict
    \/ RunCalculator
    \/ BuildRecord
    \/ FilterDeviations

SpecStatus == InitStatus /\ [][NextStatus]_vars

----------------------------------------------------------------------------
(* Specification of the parser *)

AllFields == <<"checkIn", "breakOut", "breakIn", "checkOut">>

\* sub-lists of AllFields, in field order
FieldLists ==
    { Keep(<< <<a, AllFields[1]>>, <<b, AllFields[2]>>, <<c, AllFields[3]>>,
              <<d, AllFields[4]>> >>) : a \in BOOLEAN, b \in BOOLEAN,
                                        c \in BOOLEAN, d \in BOOLEAN }

\* the four deviation flags a status is written from, and its missing fields
WrittenFlags ==
    [ checkInLate : BOOLEAN, breakOutEarly : BOOLEAN, breakInLate : BOOLEAN,
      checkOutEarly : BOOLEAN, missing : FieldLists ]

\* the status string as determineShiftStatusV2 writes it from the deviations
\* pushed and the missing entries
Serialise(w) ==
    StatusV2(Keep(<< <<w.checkInLate, "Late Check-in">>,
                     <<w.breakOutEarly, "Leave Soon Break Out">>,
                     <<w.breakInLate, "Late Break In">>,
                     <<w.checkOutEarly, "Leave Soon Check Out">> >>),
             [k \in 1..Len(w.missing) |-> [field |-> w.missing[k]]])

\* other status strings: alternative phrasings, brackets written by hand and
\* brackets that are cut short or carry a wrong opener
OtherStatuses ==
    { "",
      "Check-in Late", "Break Out Early", "Break In Late", "Check Out Early",
      "Leave Soon", "INVALID - No Check-In",
      "[Missing: Check Out]",
      "[Missing: Check Out, Break Out, Break In]",
      "On Time [Missing:  Check Out,  Break In  ]",
      "On Time [Missing: Lunch, Check Out]",
      "Late Check-in [Missing:Check Out]",
      "On Time [Missing: ]",
      "Some other text [Missing: Check Out",
      "Late Check-in, Late Break In [Missing: Break Out, Check Out",
      "Done] On Time [Missing: Break In",
      "On Time [Missing:",
      "[Missing Check Out]",
      "On Time [missing: Check Out]",
      "On Time (Missing: Check Out)",
      "Late Break In [Mising: Break Out, Check Out]",
      "[]" }

InitParse ==
    /\ \/ /\ written \in WrittenFlags
          /\ statusText = Serialise(written)
       \/ /\ written = NotRun
          /\ statusText \in OtherStatuses
    /\ flags = NotRun
    /\ missedPunch = NotRun
    /\ ShiftIdle
    /\ StatusIdle
    /\ BurstIdle
    /\ BatchIdle
    /\ StatsIdle

\* const deviationFlags = parseDeviations(status)
ParseDeviations ==
    /\ flags = NotRun
    /\ flags' = parseDeviations(statusText)
    /\ UNCHANGED <<shiftVars, statusVars, burstVars, batchVars, written, statusText,
                   missedPunch, statsVars>>

\* missedPunch: getMissedPunch(status)
GetMissedPunch ==
    /\ missedPunch = NotRun
    /\ missedPunch' = [text |-> getMissedPunch(statusText)]
    /\ UNCHANGED <<shiftVars, statusVars, burstVars, batchVars, written, statusText,
                   flags, statsVars>>

NextParse ==
    \/ ParseDeviations
    \/ GetMissedPunch

SpecParse == InitParse /\ [][NextParse]_vars

----------------------------------------------------------------------------
(* Part IV: burst detection (AsyncBurstDetector) *)

\* if (timeDiffMinutes <= 2)
burstThresholdMinutes == 2

Users == {"u1", "u2"}

\* swipe timestamps, in seconds: consecutive values are 90 s, 120 s, 60 s and
\* 61 s apart; 90 and 270 are three minutes apart, 210 and 331 are 121 s apart
SwipeTimes == {0, 90, 210, 270, 331}

\* swipe lists as they arrive (file order, any user, any time); id is the
\* identity of the swipe object
SwipeLists ==
    UNION { { [k \in 1..n |-> [name |-> f[k][1], timestamp |-> f[k][2], id |-> k]] :
                f \in [1..n -> Users \X SwipeTimes] } : n \in 0..MaxSwipes }

\* groups.get(swipe.name)!.push(swipe), creating the group on first sight
AddToGroup(groups, swipe) ==
    IF \E g \in 1..Len(groups) : groups[g].name = swipe.name
    THEN [g \in 1..Len(groups) |->
            IF groups[g].name = swipe.name
            THEN [groups[g] EXCEPT !.swipes = Append(@, swipe)]
            ELSE groups[g]]
    ELSE Append(groups, [name |-> swipe.name, swipes |-> <<swipe>>])

\* groupSwipesByUser(swipes), over the first n swipes
RECURSIVE groupSwipesByUser(_, _)
groupSwipesByUser(sw, n) ==
    IF n = 0 THEN <<>> ELSE AddToGroup(groupSwipesByUser(sw, n - 1), sw[n])

\* insertion of x behind every element that is not later than x
RECURSIVE InsertByTimestamp(_, _)
InsertByTimestamp(sorted, x) ==
    IF Len(sorted) = 0 THEN <<x>>
    ELSE IF sorted[Len(sorted)].timestamp <= x.timestamp THEN Append(sorted, x)
    ELSE Append(InsertByTimestamp(SubSeq(sorted, 1, Len(sorted) - 1), x),
                sorted[Len(sorted)])

\* userSwipes.sort((a, b) => a.timestamp.getTime() - b.timestamp.getTime())
\* (Array.prototype.sort is stable), over the first n elements
RECURSIVE SortByTimestamp(_, _)
SortByTimestamp(sw, n) ==
    IF n = 0 THEN <<>> ELSE InsertByTimestamp(SortByTimestamp(sw, n - 1), sw[n])

\* mutant of WithinThreshold: a gap equal to the threshold splits
WithinThreshold_Strict(swipe, lastSwipe) ==
    swipe.timestamp - lastSwipe.timestamp < burstThresholdMinutes * 60

\* timeDiffMinutes <= 2, timeDiff in seconds
WithinThreshold(swipe, lastSwipe) ==
    swipe.timestamp - lastSwipe.timestamp <= burstThresholdMinutes * 60

\* the burst object pushed for the swipes collected in cur
MakeBurst(bs, cur) ==
    [ id |-> Len(bs) + 1, swipes |-> cur, earliestSwipe |-> cur[1],
      latestSwipe |-> cur[Len(cur)], count |-> Len(cur) ]

\* mutant of WithFinalBurst: the burst still open at the end is not pushed
WithFinalBurst_Dropped(bs, cur) == bs

\* "Add final burst if exists"
WithFinalBurst(bs, cur) ==
    IF Len(cur) > 0 THEN Append(bs, MakeBurst(bs, cur)) ELSE bs

InitBurst ==
    /\ swipeInput \in SwipeLists
    /\ userGroups = <<>>
    /\ userSwipes = <<>>
    /\ si = 1
    /\ currentBurst = <<>>
    /\ userBursts = <<>>
    /\ detected = <<>>
    /\ bpc = "start"
    /\ ShiftIdle
    /\ StatusIdle
    /\ ParseIdle
    /\ BatchIdle
    /\ StatsIdle

\* const userGroups = this.groupSwipesByUser(swipes)
GroupSwipes ==
    /\ bpc = "start"
    /\ userGroups' = groupSwipesByUser(swipeInput, Len(swipeInput))
    /\ bpc' = "users"
    /\ UNCHANGED <<shiftVars, statusVars, parseVars, batchVars, swipeInput, userSwipes,
                   si, currentBurst, userBursts, detected, statsVars>>

\* next user group: sort its swipes and enter detectUserBursts
BeginUser ==
    /\ bpc = "users"
    /\ Len(userGroups) > 0
    /\ userSwipes' = SortByTimestamp(userGroups[1].swipes, Len(userGroups[1].swipes))
    /\ userGroups' = Tail(userGroups)
    /\ si' = 1
    /\ currentBurst' = <<>>
    /\ userBursts' = <<>>
    /\ bpc' = "scan"
    /\ UNCHANGED <<shiftVars, statusVars, parseVars, batchVars, swipeInput, detected, statsVars>>

\* detectUserBursts: the current burst is empty
FirstSwipe ==
    /\ bpc = "scan"
    /\ si <= Len(userSwipes)
    /\ Len(currentBurst) = 0
    /\ currentBurst' = <<userSwipes[si]>>
    /\ si' = si + 1
    /\ UNCHANGED <<shiftVars, statusVars, parseVars, batchVars, swipeInput, userGroups,
                   userSwipes, userBursts, detected, bpc, statsVars>>

\* detectUserBursts: the swipe is within the threshold of the last swipe
ExtendBurst ==
    /\ bpc = "scan"
    /\ si <= Len(userSwipes)
    /\ Len(currentBurst) > 0
    /\ WithinThreshold(userSwipes[si], currentBurst[Len(currentBurst)])
    /\ currentBurst' = Append(currentBurst, userSwipes[si])
    /\ si' = si + 1
    /\ UNCHANGED <<shiftVars, statusVars, parseVars, batchVars, swipeInput, userGroups,
                   userSwipes, userBursts, detected, bpc, statsVars>>

\* detectUserBursts: end the current burst and start a new one
SplitBurst ==
    /\ bpc = "scan"
    /\ si <= Len(userSwipes)
    /\ Len(currentBurst) > 0
    /\ ~WithinThreshold(userSwipes[si], currentBurst[Len(currentBurst)])
    /\ userBursts' = Append(userBursts, MakeBurst(userBursts, currentBurst))
    /\ currentBurst' = <<userSwipes[si]>>
    /\ si' = si + 1
    /\ UNCHANGED <<shiftVars, statusVars, parseVars, batchVars, swipeInput, userGroups,
                   userSwipes, detected, bpc, statsVars>>

\* detectUserBursts returns: bursts.push(...userBursts)
EndUser ==
    /\ bpc = "scan"
    /\ si > Len(userSwipes)
    /\ userBursts' = WithFinalBurst(userBursts, currentBurst)
    /\ detected' = detected \o WithFinalBurst(userBursts, currentBurst)
    /\ currentBurst' = <<>>
    /\ bpc' = "users"
    /\ UNCHANGED <<shiftVars, statusVars, parseVars, batchVars, swipeInput, userGroups,
                   userSwipes, si, statsVars>>

\* every group is processed: return bursts
BurstsDone ==
    /\ bpc = "users"
    /\ Len(userGroups) = 0
    /\ bpc' = "done"
    /\ UNCHANGED <<shiftVars, statusVars, parseVars, batchVars, swipeInput, userGroups,
                   userSwipes, si, currentBurst, userBursts, detected, statsVars>>

NextBurst ==
    \/ GroupSwipes
    \/ BeginUser
    \/ FirstSwipe
    \/ ExtendBurst
    \/ SplitBurst
    \/ EndUser
    \/ BurstsDone

SpecBurst == InitBurst /\ [][NextBurst]_vars

----------------------------------------------------------------------------
(* Part V: the row stage of POST /api/v1/processor *)
(* The worksheet has the five required columns; sheet[r] is worksheet row  *)
(* r + 1 (row 1 is the header).                                            *)

\* mutant of statusFilter: every status passes
statusFilter_Any == {"Success", "Failure"}

\* config.statusFilter || rules.status_filter || ['Success']
statusFilter == {"Success"}

\* allowed users from users.yaml and rule.yaml
allowedUsers == Users

\* a worksheet row without cell values
EmptyRow == [cells |-> "none"]

\* worksheet rows with cell values: the timestamp cells parse or not, a
\* required cell is filled or not, Status and Name as read
DataRows ==
    { [cells |-> "some", defect |-> d, status |-> "Success", name |-> "u1"] :
        d \in {"Invalid timestamp", "Missing required field"} }
    \cup
    { [cells |-> "some", defect |-> "", status |-> st, name |-> nm] :
        st \in {"Success", "Failure"}, nm \in {"u1", "visitor"} }

Sheets == UNION { [1..n -> {EmptyRow} \cup DataRows] : n \in 0..MaxRows }

\* rows 2..rowCount without the rows that have no values
RECURSIVE NonEmptyRows(_)
NonEmptyRows(rows) ==
    IF Len(rows) = 0 THEN <<>>
    ELSE (IF rows[1].cells = "none" THEN <<>> ELSE << rows[1] >>)
            \o NonEmptyRows(Tail(rows))

\* parseSwipeRecord(row, index) throws
ParseThrows(row) == row.defect # ""

\* mutant of NothingLeft: an empty swipe list is let through
NothingLeft_LetThrough(sw) == FALSE

\* if (swipes.length === 0)
NothingLeft(sw) == Len(sw) = 0

\* warnings.slice(0, 10)
FirstTen(ws) == SubSeq(ws, 1, IF Len(ws) < 10 THEN Len(ws) ELSE 10)

NoDataResponse == [status |-> 400, error |-> "No data found in Excel file"]

InitBatch ==
    /\ sheet \in Sheets
    /\ rawData = <<>>
    /\ ri = 0
    /\ swipes = <<>>
    /\ warnings = <<>>
    /\ filteredByStatus = 0
    /\ filteredByUser = 0
    /\ stagesRun = <<>>
    /\ response = NotRun
    /\ stage = "read"
    /\ ShiftIdle
    /\ StatusIdle
    /\ ParseIdle
    /\ BurstIdle
    /\ StatsIdle

\* the worksheet has no row below the header
NoRows ==
    /\ stage = "read"
    /\ Len(sheet) = 0
    /\ response' = NoDataResponse
    /\ stage' = "responded"
    /\ UNCHANGED <<shiftVars, statusVars, parseVars, burstVars, sheet, rawData, ri,
                   swipes, warnings, filteredByStatus, filteredByUser, stagesRun, statsVars>>

\* rows are read into rawData, rows without values are skipped; nothing read
NoData ==
    /\ stage = "read"
    /\ Len(sheet) > 0
    /\ Len(NonEmptyRows(sheet)) = 0
    /\ response' = NoDataResponse
    /\ stage' = "responded"
    /\ UNCHANGED <<shiftVars, statusVars, parseVars, burstVars, sheet, rawData, ri,
                   swipes, warnings, filteredByStatus, filteredByUser, stagesRun, statsVars>>

\* rows are read into rawData, rows without values are skipped
ReadSheet ==
    /\ stage = "read"
    /\ Len(NonEmptyRows(sheet)) > 0
    /\ rawData' = NonEmptyRows(sheet)
    /\ ri' = 0
    /\ stage' = "parse"
    /\ UNCHANGED <<shiftVars, statusVars, parseVars, burstVars, sheet, swipes, warnings,
                   filteredByStatus, filteredByUser, stagesRun, response, statsVars>>

\* parse loop: parseSwipeRecord throws, the catch block records a warning
RowFails ==
    /\ stage = "parse"
    /\ ri < Len(rawData)
    /\ ParseThrows(rawData[ri + 1])
    /\ warnings' = Append(warnings, [row |-> ri + 2, message |-> rawData[ri + 1].defect])
    /\ ri' = ri + 1
    /\ UNCHANGED <<shiftVars, statusVars, parseVars, burstVars, sheet, rawData, swipes,
                   filteredByStatus, filteredByUser, stagesRun, response, stage, statsVars>>

\* parse loop: the swipe's status is not in the status filter
RowFilteredByStatus ==
    /\ stage = "parse"
    /\ ri < Len(rawData)
    /\ ~ParseThrows(rawData[ri + 1])
    /\ rawData[ri + 1].status \notin statusFilter
    /\ filteredByStatus' = filteredByStatus + 1
    /\ ri' = ri + 1
    /\ UNCHANGED <<shiftVars, statusVars, parseVars, burstVars, sheet, rawData, swipes,
                   warnings, filteredByUser, stagesRun, response, stage, statsVars>>

\* parse loop: the swipe's user is not an allowed user
RowFilteredByUser ==
    /\ stage = "parse"
    /\ ri < Len(rawData)
    /\ ~ParseThrows(rawData[ri + 1])
    /\ rawData[ri + 1].status \in statusFilter
    /\ rawData[ri + 1].name \notin allowedUsers
    /\ filteredByUser' = filteredByUser + 1
    /\ ri' = ri + 1
    /\ UNCHANGED <<shiftVars, statusVars, parseVars, burstVars, sheet, rawData, swipes,
                   warnings, filteredByStatus, stagesRun, response, stage, statsVars>>

\* parse loop: the swipe passes both filters
RowAccepted ==
    /\ stage = "parse"
    /\ ri < Len(rawData)
    /\ ~ParseThrows(rawData[ri + 1])
    /\ rawData[ri + 1].status \in statusFilter
    /\ rawData[ri + 1].name \in allowedUsers
    /\ swipes' = Append(swipes, [name |-> rawData[ri + 1].name,
                                 status |-> rawData[ri + 1].status])
    /\ ri' = ri + 1
    /\ UNCHANGED <<shiftVars, statusVars, parseVars, burstVars, sheet, rawData, warnings,
                   filteredByStatus, filteredByUser, stagesRun, response, stage, statsVars>>

\* after the loop: no swipe is left, the request is answered with status 400
RejectBatch ==
    /\ stage = "parse"
    /\ ri = Len(rawData)
    /\ NothingLeft(swipes)
    /\ response' = [ status  |-> 400,
                     error   |-> "No valid records found after filtering",
                     details |-> [ totalRows        |-> Len(rawData),
                                   filteredByStatus |-> filteredByStatus,
                                   filteredByUser   |-> filteredByUser,
                                   invalidRows      |-> Len(warnings),
                                   allowedUsers     |-> allowedUsers,
                                   statusFilter     |-> statusFilter,
                                   warnings         |-> FirstTen(warnings) ] ]
    /\ stage' = "responded"
    /\ UNCHANGED <<shiftVars, statusVars, parseVars, burstVars, sheet, rawData, ri,
                   swipes, warnings, filteredByStatus, filteredByUser, stagesRun, statsVars>>

\* after the loop: STEP 1 to STEP 5 run on the swipes and the result is returned
RunPipeline ==
    /\ stage = "parse"
    /\ ri = Len(rawData)
    /\ ~NothingLeft(swipes)
    /\ stagesRun' = <<"bursts", "shifts", "attendance">>
    /\ response' = [ status  |-> 200,
                     success |-> TRUE,
                     result  |-> [ recordsProcessed |-> Len(swipes),
                                   warnings         |-> FirstTen(warnings),
                                   outputData       |-> "attendanceRecords" ],
                     debug   |-> [ totalRows        |-> Len(rawData),
                                   filteredByStatus |-> filteredByStatus,
                                   filteredByUser   |-> filteredByUser,
                                   allowedUsers     |-> allowedUsers ] ]
    /\ stage' = "responded"
    /\ UNCHANGED <<shiftVars, statusVars, parseVars, burstVars, sheet, rawData, ri,
                   swipes, warnings, filteredByStatus, filteredByUser, statsVars>>

NextBatch ==
    \/ NoRows
    \/ NoData
    \/ ReadSheet
    \/ RowFails
    \/ RowFilteredByStatus
    \/ RowFilteredByUser
    \/ RowAccepted
    \/ RejectBatch
    \/ RunPipeline

SpecBatch == InitBatch /\ [][NextBatch]_vars

----------------------------------------------------------------------------
(* Analytics rollup: calculateUserStats and generateSummaryStats *)

UserNames == {"Silver_Bui", "Capone"}

\* status texts of attendance records: none, no deviation, late, left soon,
\* and late with left soon in one record
StatusTexts ==
    {"", "On Time", "Late Check-in", "Leave Soon Check Out",
     "Late Check-in, Leave Soon Break Out"}

AttendanceRecords == [name : UserNames, status : StatusTexts]

RecordLists == UNION { [1..n -> AttendanceRecords] : n \in 0..MaxRecords }

\* r.status && r.status.includes('Late')
isLate(r) == r.status # "" /\ Contains(r.status, "Late")

\* r.status && r.status.includes('Leave Soon')
isSoon(r) == r.status # "" /\ Contains(r.status, "Leave Soon")

\* recs.filter((r) => r.status && r.status.includes('Late')).length
LateCount(recs) == Cardinality({ k \in 1..Len(recs) : isLate(recs[k]) })

\* recs.filter((r) => r.status && r.status.includes('Leave Soon')).length
SoonCount(recs) == Cardinality({ k \in 1..Len(recs) : isSoon(recs[k]) })

\* Math.round(x * 10) / 10 of x = (count / total) * 100, in tenths of a percent
\* (Math.round is floor(x + 0.5), also below zero)
RoundedPercentage(count, total) ==
    IF total > 0 THEN MathRound(count * 1000, total) ELSE 0

\* the reduce of calculateUserStats: groups in order of first appearance
RECURSIVE GroupByName(_, _)
GroupByName(recs, n) ==
    IF n = 0 THEN <<>>
    ELSE LET acc == GroupByName(recs, n - 1)
             known == \E g \in 1..Len(acc) : acc[g].userName = recs[n].name
         IN IF known
            THEN [g \in 1..Len(acc) |->
                    IF acc[g].userName = recs[n].name
                    THEN [acc[g] EXCEPT !.userRecords = Append(@, recs[n])]
                    ELSE acc[g]]
            ELSE Append(acc, [userName |-> recs[n].name, userRecords |-> <<recs[n]>>])

\* the entry calculateUserStats builds for one group
UserStatsOf(userName, userRecords) ==
    LET totalRecords == Len(userRecords)
        lateCount == LateCount(userRecords)
        soonCount == SoonCount(userRecords)
        onTimeCount == totalRecords - lateCount - soonCount
    IN [userName |-> userName,
        totalRecords |-> totalRecords,
        lateCount |-> lateCount,
        onTimeCount |-> onTimeCount,
        soonCount |-> soonCount,
        latePercentage |-> RoundedPercentage(lateCount, totalRecords),
        onTimePercentage |-> RoundedPercentage(onTimeCount, totalRecords),
        soonPercentage |-> RoundedPercentage(soonCount, totalRecords),
        deviationPercentage |-> RoundedPercentage(lateCount + soonCount, totalRecords)]

\* insertion of x behind every entry with at least as many records
RECURSIVE InsertByTotalRecords(_, _)
InsertByTotalRecords(sorted, x) ==
    IF Len(sorted) = 0 THEN <<x>>
    ELSE IF sorted[Len(sorted)].totalRecords >= x.totalRecords THEN Append(sorted, x)
    ELSE Append(InsertByTotalRecords(SubSeq(sorted, 1, Len(sorted) - 1), x),
                sorted[Len(sorted)])

\* userStats.sort((a, b) => b.totalRecords - a.totalRecords), stable,
\* over the first n entries
RECURSIVE SortByTotalRecords(_, _)
SortByTotalRecords(stats, n) ==
    IF n = 0 THEN <<>>
    ELSE InsertByTotalRecords(SortByTotalRecords(stats, n - 1), stats[n])

calculateUserStats(recs) ==
    LET userGroups_ == GroupByName(recs, Len(recs))
        stats == [g \in 1..Len(userGroups_) |->
                    UserStatsOf(userGroups_[g].userName, userGroups_[g].userRecords)]
    IN SortByTotalRecords(stats, Len(stats))

generateSummaryStats(recs) ==
    LET totalRecords == Len(recs)
        totalLate == LateCount(recs)
        totalSoon == SoonCount(recs)
        totalOnTime == totalRecords - totalLate - totalSoon
        latePercentage == RoundedPercentage(totalLate, totalRecords)
        soonPercentage == RoundedPercentage(totalSoon, totalRecords)
        onTimePercentage == RoundedPercentage(totalOnTime, totalRecords)
        uniqueUsers == Cardinality({ recs[k].name : k \in 1..Len(recs) })
    IN [totalRecords |-> totalRecords,
        totalLate |-> totalLate,
        totalOnTime |-> totalOnTime,
        totalSoon |-> totalSoon,
        latePercentage |-> latePercentage,
        onTimePercentage |-> onTimePercentage,
        soonPercentage |-> soonPercentage,
        deviationPercentage |-> latePercentage + soonPercentage,
        averageAttendance |-> IF uniqueUsers > 0
                              THEN MathRound(totalRecords * 10, uniqueUsers) ELSE 0,
        uniqueUsers |-> uniqueUsers]

InitStats ==
    /\ records \in RecordLists
    /\ userStats = NotRun
    /\ summary = NotRun
    /\ ShiftIdle
    /\ StatusIdle
    /\ ParseIdle
    /\ BurstIdle
    /\ BatchIdle

CalculateUserStats ==
    /\ userStats = NotRun
    /\ userStats' = [status |-> "done", list |-> calculateUserStats(records)]
    /\ UNCHANGED <<shiftVars, statusVars, parseVars, burstVars, batchVars, records, summary>>

GenerateSummaryStats ==
    /\ summary = NotRun
    /\ summary' = generateSummaryStats(records)
    /\ UNCHANGED <<shiftVars, statusVars, parseVars, burstVars, batchVars, records, userStats>>

NextStats ==
    \/ CalculateUserStats
    \/ GenerateSummaryStats

SpecStats == InitStats /\ [][NextStats]_vars

----------------------------------------------------------------------------
(* Properties of shift detection (C1 - C5) *)

BurstIdx == 1..Len(bursts)
InstIdx  == 1..Len(shiftInstances)

\* places <<n, p>> at which burst k occurs in the created instances
Places(k) ==
    { np \in InstIdx \X (1..MaxBursts + 1) :
        /\ np[2] <= Len(shiftInstances[np[1]].bursts)
        /\ shiftInstances[np[1]].bursts[np[2]] = bursts[k] }

\* C1: after shift detection each burst belongs to at most one shift instance:
\* it occurs at most once in all the assigned-burst lists taken together.
C1_AssignmentPartition ==
    \A k \in BurstIdx : Cardinality(Places(k)) <= 1

\* C1 witness: detection finished with two instances that share out three bursts
C1_Witness ==
    /\ pc = "done"
    /\ Len(bursts) = 3
    /\ Len(shiftInstances) = 2
    /\ \A k \in BurstIdx : Cardinality(Places(k)) = 1

\* C2: while an instance of shift S is open, a candidate the forward scan
\* reaches (start not later than the activity window end) whose start
\* time-of-day lies inside S's check-out window is assigned to that instance,
\* whatever shift code it carries; the assigned list is what the instance gets.
C2_CheckoutPriority ==
    [][ /\ ( /\ pc = "inner"
             /\ j <= Len(bursts)
             /\ bursts[j].burstStart <= windowEnd
             /\ isTimeInRange(ClassTime(j), CurConfig.checkOutStart,
                              CurConfig.checkOutEnd) )
           => /\ assignedBursts' = Append(assignedBursts, bursts[j])
              /\ assigned'[j]
              /\ pc' = "inner"
        /\ (pc = "inner" /\ pc' = "outer" /\ Len(assignedBursts) > 0)
           => /\ Len(shiftInstances') = Len(shiftInstances) + 1
              /\ shiftInstances'[Len(shiftInstances')].bursts = assignedBursts
              /\ shiftInstances'[Len(shiftInstances')].shiftCode = ClassCode(i)
      ]_vars

\* C2 witness: an instance of shift S holds, after its opening burst, a burst
\* that lies in S's check-out window and carries the code of another shift T
C2_Witness ==
    \E n \in InstIdx : \E p \in 2..Len(shiftInstances[n].bursts) :
        LET inst == shiftInstances[n]
            t    == extractTime(inst.bursts[p].burstStart)
            sc   == Shifts(cfg)[inst.shiftCode]
        IN /\ isTimeInRange(t, sc.checkOutStart, sc.checkOutEnd)
           /\ findShiftCode(cfg, t) # Null
           /\ findShiftCode(cfg, t) # inst.shiftCode

\* end times of the instance's assigned bursts that lie in its check-out window
CheckOutEnds(inst) ==
    LET sc == Shifts(cfg)[inst.shiftCode]
    IN { inst.bursts[p].burstEnd : p \in
           { q \in 1..Len(inst.bursts) :
               isTimeInRange(extractTime(inst.bursts[q].burstEnd),
                             sc.checkOutStart, sc.checkOutEnd) } }

\* C3: checkOut of every instance is the latest end time among its assigned
\* bursts whose end time-of-day lies inside the shift's check-out window, and
\* is absent when there is none.
C3_LatestCheckOut ==
    \A n \in InstIdx :
        LET inst == shiftInstances[n]
            ends == CheckOutEnds(inst)
        IN IF ends = {}
           THEN inst.checkOut = Undefined
           ELSE /\ inst.checkOut \in ends
                /\ \A e \in ends : e <= inst.checkOut

\* C3 witness: an instance with two assigned bursts ending in the check-out
\* window and one ending outside it, beside an instance without a check-out
C3_Witness ==
    /\ \E n \in InstIdx :
          /\ Cardinality(CheckOutEnds(shiftInstances[n])) >= 1
          /\ Len(shiftInstances[n].bursts) > Cardinality(CheckOutEnds(shiftInstances[n]))
          /\ shiftInstances[n].checkOut # Undefined
    /\ \E n \in InstIdx : shiftInstances[n].checkOut = Undefined

\* burst k was assigned by the forward scan of an instance opened before it
TakenByEarlier(k) ==
    \E np \in Places(k) : np[2] > 1

\* burst k is the opening (first) burst of an instance whose checkIn is its start
OpensInstance(k) ==
    \E n \in InstIdx :
        /\ shiftInstances[n].bursts[1] = bursts[k]
        /\ shiftInstances[n].checkIn = bursts[k].burstStart
        /\ shiftInstances[n].shiftCode = ClassCode(k)

NoEmptyInstance ==
    \A n \in InstIdx : Len(shiftInstances[n].bursts) >= 1

\* burst k starts no later than the activity window end of the instance it opens
StartsInOwnWindow(k) ==
    bursts[k].burstStart <=
        calculateActivityWindowEnd(extractDate(bursts[k].burstStart), ClassCode(k),
                                   Shifts(cfg)[ClassCode(k)])

InNoCheckInWindow(k) ==
    \A c \in {"A", "B", "C"} :
        ~isTimeInRange(ClassTime(k), Shifts(cfg)[c].checkInStart,
                       Shifts(cfg)[c].checkInEnd)

\* C5: a burst whose start lies in no template's check-in window and that no
\* forward scan consumed belongs to no instance and creates none; reaching it
\* raises nothing: the outer scan steps to the next burst and goes on to the
\* end of the list.
C5_Orphan ==
    /\ [](\A k \in BurstIdx :
            (InNoCheckInWindow(k) /\ ~assigned[k])
               => /\ Places(k) = {}
                  /\ \A n \in InstIdx :
                        shiftInstances[n].checkIn # bursts[k].burstStart)
    /\ [](pc = "done" => i = Len(bursts) + 1)
    /\ [][ (pc = "outer" /\ i <= Len(bursts) /\ InNoCheckInWindow(i) /\ ~assigned[i])
             => (i' = i + 1 /\ pc' = "outer" /\ shiftInstances' = shiftInstances) ]_vars

\* C5 witness: detection finished, the first burst is an orphan and a later
\* burst still opened an instance
C5_Witness ==
    /\ pc = "done"
    /\ Len(bursts) >= 2
    /\ InNoCheckInWindow(1) /\ ~assigned[1]
    /\ Len(shiftInstances) >= 1

----------------------------------------------------------------------------
(* Properties of the evaluator (C6 - C10) *)

\* the status with any " [Missing: ...]" suffix removed
StripMissing(str) ==
    LET at == IndexOf(str, " [Missing: ")
    IN IF at = 0 THEN str ELSE SubSeq(str, 1, at - 1)

RanTolerant == resultV2 # NotRun
RanStrict   == resultV1 # NotRun

CheckInAbsent == input.checkIn = NullV \/ input.checkIn = EmptyV

\* fields named in the result's missing-timestamp list
MissingFields ==
    { resultV2.missingTimestamps[k].field : k \in 1..Len(resultV2.missingTimestamps) }

\* round((4 - n) / 4 * 100) is exact for n in 0..4: pct * 4 = (4 - n) * 100
CompletenessIdentity ==
    resultV2.completenessPercentage * 4 = (4 - Len(resultV2.missingTimestamps)) * 100

\* C6 as claimed: every tolerant result, the one for an absent checkIn
\* included, has completenessPercentage = round((4 - n) / 4 * 100), n the length
\* of its missing-timestamp list.
C6_Original ==
    RanTolerant => CompletenessIdentity

\* C6 amended: completenessPercentage = round((4 - n) / 4 * 100) for every
\* tolerant result with checkIn present; the result for an absent checkIn has
\* one missing entry and completenessPercentage 0.
C6_CompletenessIdentity ==
    RanTolerant =>
        IF CheckInAbsent
        THEN /\ Len(resultV2.missingTimestamps) = 1
             /\ resultV2.completenessPercentage = 0
        ELSE CompletenessIdentity

\* C6 witness: checkIn present, two fields missing, completeness 50
C6_Witness ==
    /\ RanTolerant
    /\ ~CheckInAbsent
    /\ Len(resultV2.missingTimestamps) = 2
    /\ resultV2.completenessPercentage = 50

\* C7: requiresReview is true exactly when the quality tier is critical or
\* checkOut is among the missing fields; hence it implies checkIn missing or
\* completeness < 75 or checkOut missing, and a record at 75% whose only
\* missing field is breakOut or breakIn does not require review.
C7_ReviewRule ==
    RanTolerant =>
        /\ resultV2.requiresReview <=>
              (resultV2.dataQuality = "critical" \/ "checkOut" \in MissingFields)
        /\ resultV2.requiresReview =>
              \/ "checkIn" \in MissingFields
              \/ resultV2.completenessPercentage < 75
              \/ "checkOut" \in MissingFields
        /\ ( /\ resultV2.completenessPercentage = 75
             /\ (MissingFields = {"breakOut"} \/ MissingFields = {"breakIn"}) )
              => ~resultV2.requiresReview

\* C7 witness: a record at exactly 75% that requires review because its only
\* missing field is checkOut
C7_Witness ==
    /\ RanTolerant
    /\ resultV2.completenessPercentage = 75
    /\ resultV2.dataQuality = "partial"
    /\ MissingFields = {"checkOut"}
    /\ resultV2.requiresReview

\* C8: with checkIn absent the tolerant result is exactly the invalid record,
\* whatever breakOut, breakIn and checkOut are: status "INVALID - No Check-In",
\* the single missing entry (checkIn, high), completeness 0, quality critical,
\* requiresReview true.
C8_NoCheckIn ==
    (RanTolerant /\ CheckInAbsent) =>
        /\ resultV2.status = "INVALID - No Check-In"
        /\ Len(resultV2.missingTimestamps) = 1
        /\ resultV2.missingTimestamps[1].field = "checkIn"
        /\ resultV2.missingTimestamps[1].severity = "high"
        /\ resultV2.completenessPercentage = 0
        /\ resultV2.dataQuality = "critical"
        /\ resultV2.requiresReview

\* C8 witness: checkIn is the empty string, breakOut is early and checkOut is
\* missing, and the result is the invalid record
C8_Witness ==
    /\ RanTolerant
    /\ input.checkIn = EmptyV
    /\ input.breakOut = InputConfig.breakOutExpectedTime - 1
    /\ input.checkOut = NullV
    /\ resultV2.status = "INVALID - No Check-In"

OptionalFields == {"breakOut", "breakIn", "checkOut"}

Severity(f) ==
    CASE f = "breakOut" -> "low"
      [] f = "breakIn"  -> "medium"
      [] f = "checkOut" -> "high"

DeviationLabel(f) ==
    CASE f = "breakOut" -> "Leave Soon Break Out"
      [] f = "breakIn"  -> "Late Break In"
      [] f = "checkOut" -> "Leave Soon Check Out"

\* field f has exactly one missing entry, with its fixed severity
OneMissingEntry(f) ==
    LET at == { k \in 1..Len(resultV2.missingTimestamps) :
                  resultV2.missingTimestamps[k].field = f }
    IN /\ Cardinality(at) = 1
       /\ \A k \in at : resultV2.missingTimestamps[k].severity = Severity(f)

\* C9 as claimed: with checkIn present, an optional field that is null, empty
\* or whitespace only has exactly one missing entry with its fixed severity
\* and contributes no deviation label.
C9_Original ==
    (RanTolerant /\ ~CheckInAbsent) =>
        \A f \in OptionalFields :
            input[f] \in {NullV, EmptyV, BlankV}
               => /\ OneMissingEntry(f)
                  /\ ~Contains(resultV2.status, DeviationLabel(f))

\* C9 amended: with checkIn present, an optional field that is null or the
\* empty string has exactly one missing entry with its fixed severity
\* (breakOut low, breakIn medium, checkOut high) and contributes no deviation
\* label; any other value, a whitespace-only one included, counts as present:
\* it has no missing entry and is compared as a string, so whitespace-only
\* breakOut and checkOut are labelled "Leave Soon ..." and whitespace-only
\* breakIn is not labelled.
C9_MissingOptional ==
    (RanTolerant /\ ~CheckInAbsent) =>
        \A f \in OptionalFields :
            /\ input[f] \in {NullV, EmptyV}
                  => /\ OneMissingEntry(f)
                     /\ ~Contains(resultV2.status, DeviationLabel(f))
            /\ input[f] \notin {NullV, EmptyV} => f \notin MissingFields
            /\ input[f] = BlankV
                  => (Contains(resultV2.status, DeviationLabel(f)) <=> f # "breakIn")

\* C9 witness: breakOut null, breakIn empty, checkOut early: two missing
\* entries and the check-out label
C9_Witness ==
    /\ RanTolerant
    /\ ~CheckInAbsent
    /\ input.breakOut = NullV
    /\ input.breakIn = EmptyV
    /\ input.checkOut = InputConfig.checkOutExpectedTime - 1
    /\ MissingFields = {"breakOut", "breakIn"}
    /\ Contains(resultV2.status, "Leave Soon Check Out")

AllPresent ==
    \A f \in {"checkIn", "breakOut", "breakIn", "checkOut"} :
        input[f] # NullV /\ input[f] # EmptyV

\* C10: with checkIn present, the tolerant status without its " [Missing: ...]"
\* suffix equals the strict status on the same four values (absent ones passed
\* as empty); with all four timestamps present the two statuses are identical.
C10_PoliciesAgree ==
    (RanTolerant /\ RanStrict /\ ~CheckInAbsent) =>
        /\ StripMissing(resultV2.status) = resultV1.status
        /\ AllPresent => resultV2.status = resultV1.status

\* C10 witness: both policies ran, checkIn is late, break-in is exactly at its
\* late threshold and a field is missing: the statuses differ only by the suffix
C10_Witness ==
    /\ RanTolerant /\ RanStrict
    /\ input.checkIn = InputConfig.checkInLateThreshold
    /\ input.breakIn = InputConfig.breakInLateThreshold
    /\ input.checkOut = NullV
    /\ resultV1.status = "Late Check-in, Late Break In"
    /\ resultV2.status # resultV1.status
    /\ StripMissing(resultV2.status) = resultV1.status

----------------------------------------------------------------------------
(* Properties of the status string (C11, C12) *)

Fields == <<"checkIn", "breakOut", "breakIn", "checkOut">>

\* the field was handed over as a non-empty string
FieldPresent(f) == input[f] # NullV /\ input[f] # EmptyV

\* the comparison the claim states for field f, on the input itself
Triggered(f) ==
    /\ FieldPresent(f)
    /\ CASE f = "checkIn"  -> input.checkIn >= InputConfig.checkInLateThreshold
         [] f = "breakOut" -> input.breakOut < InputConfig.breakOutExpectedTime
         [] f = "breakIn"  -> input.breakIn >= InputConfig.breakInLateThreshold
         [] f = "checkOut" -> input.checkOut < InputConfig.checkOutExpectedTime

LabelOf(f) ==
    CASE f = "checkIn"  -> "Late Check-in"
      [] f = "breakOut" -> "Leave Soon Break Out"
      [] f = "breakIn"  -> "Late Break In"
      [] f = "checkOut" -> "Leave Soon Check Out"

TriggeredFields == { k \in 1..4 : Triggered(Fields[k]) }

\* the triggered labels, in field order, with ", " between neighbours
RECURSIVE LabelsFrom(_)
LabelsFrom(k) ==
    IF k > 4 THEN ""
    ELSE LET rest == LabelsFrom(k + 1)
         IN IF k \notin TriggeredFields THEN rest
            ELSE IF rest = "" THEN LabelOf(Fields[k])
            ELSE LabelOf(Fields[k]) \o ", " \o rest

\* the label part s of a status is as C11 states it
LabelsAsStated(s) ==
    /\ \A k \in 1..4 : Contains(s, LabelOf(Fields[k])) <=> k \in TriggeredFields
    /\ \A k, m \in TriggeredFields :
          k < m => IndexOf(s, LabelOf(Fields[k])) < IndexOf(s, LabelOf(Fields[m]))
    /\ TriggeredFields # {} => s = LabelsFrom(1)
    /\ s = "On Time" <=> TriggeredFields = {}

\* C11: for present fields (non-empty strings) the status contains
\* "Late Check-in" iff checkIn >= lateThreshold, "Leave Soon Break Out" iff
\* breakOut < expectedBreakOutTime, "Late Break In" iff breakIn >=
\* breakLateThreshold, "Leave Soon Check Out" iff checkOut <
\* expectedCheckOutTime; the triggered labels are joined by ", " in the order
\* check-in, break-out, break-in, check-out, and the label part is "On Time"
\* exactly when no label is triggered.  This holds of the strict status and
\* of the tolerant status before its " [Missing: ...]" suffix.
C11_DeviationLabels ==
    /\ RanStrict => LabelsAsStated(resultV1.status)
    /\ (RanTolerant /\ ~CheckInAbsent) => LabelsAsStated(StripMissing(resultV2.status))

\* C11 witness: check-in exactly at its late threshold, break-out exactly at
\* its expected time, break-in one second before its threshold and check-out
\* one second early: the first and the last label, in that order
C11_Witness ==
    /\ RanStrict /\ RanTolerant
    /\ input.checkIn = InputConfig.checkInLateThreshold
    /\ input.breakOut = InputConfig.breakOutExpectedTime
    /\ input.breakIn = InputConfig.breakInLateThreshold - 1
    /\ input.checkOut = InputConfig.checkOutExpectedTime - 1
    /\ resultV1.status = "Late Check-in, Leave Soon Check Out"
    /\ resultV2.status = "Late Check-in, Leave Soon Check Out"

\* the optional field was handed over as null or as the empty string
FieldMissing(f) == input[f] = NullV \/ input[f] = EmptyV

MissingName(f) ==
    CASE f = "breakOut" -> "Break Out"
      [] f = "breakIn"  -> "Break In"
      [] f = "checkOut" -> "Check Out"

\* names of the missing optional fields from field k on, ", " between neighbours
RECURSIVE MissingNamesFrom(_)
MissingNamesFrom(k) ==
    IF k > 4 THEN ""
    ELSE LET rest == MissingNamesFrom(k + 1)
         IN IF ~FieldMissing(Fields[k]) THEN rest
            ELSE IF rest = "" THEN MissingName(Fields[k])
            ELSE MissingName(Fields[k]) \o ", " \o rest

EndsWith(str, suffix) ==
    /\ Len(str) >= Len(suffix)
    /\ SubSeq(str, Len(str) - Len(suffix) + 1, Len(str)) = suffix

\* C12: under the tolerant policy with checkIn present the status ends with a
\* " [Missing: ...]" suffix exactly when at least one of breakOut, breakIn,
\* checkOut is missing (null or empty); the suffix lists exactly the missing
\* fields as "Break Out", "Break In", "Check Out" in that order, separated by
\* ", ", and what precedes it is the label part determined by the deviations
\* alone.
C12_MissingSuffix ==
    (RanTolerant /\ ~CheckInAbsent) =>
        LET anyMissing == \E k \in 2..4 : FieldMissing(Fields[k])
            suffix     == " [Missing: " \o MissingNamesFrom(2) \o "]"
            labelPart  == IF TriggeredFields = {} THEN "On Time" ELSE LabelsFrom(1)
        IN /\ Contains(resultV2.status, "[Missing:") <=> anyMissing
           /\ EndsWith(resultV2.status, "]") <=> anyMissing
           /\ anyMissing => resultV2.status = labelPart \o suffix
           /\ ~anyMissing => resultV2.status = labelPart

\* C12 witness: breakOut and checkOut missing behind two deviation labels
C12_Witness ==
    /\ RanTolerant
    /\ input.breakOut = NullV
    /\ input.checkOut = EmptyV
    /\ resultV2.status =
          "Late Check-in, Late Break In [Missing: Break Out, Check Out]"

----------------------------------------------------------------------------
(* Properties of the quality tier (C13) *)

RanCalculator == calc # NotRun

TierAsStated(percentage, tier) ==
    /\ tier \in {"complete", "partial", "critical"}
    /\ tier = "complete" <=> percentage = 100
    /\ tier = "partial"  <=> (percentage >= 75 /\ percentage < 100)
    /\ tier = "critical" <=> percentage < 75

\* C13: the quality tier is complete iff completeness is 100, partial iff it
\* is at least 75 and below 100, critical iff it is below 75, for every
\* tolerant result and for every output of the completeness calculator (both
\* entry points) and of the exported quality helper.
C13_QualityTier ==
    /\ RanTolerant =>
          TierAsStated(resultV2.completenessPercentage, resultV2.dataQuality)
    /\ RanCalculator =>
          /\ TierAsStated(calc.direct.percentage, calc.direct.quality)
          /\ TierAsStated(calc.fromMissing.percentage, calc.fromMissing.quality)
          /\ TierAsStated(calc.helper.percentage, calc.helper.quality)

\* C13 witness: check-in and one optional field absent: the calculator
\* returned 50 / critical from the presence flags and 75 / partial from the
\* one-entry missing list, and the tolerant result is critical at 0
C13_Witness ==
    /\ RanTolerant /\ RanCalculator
    /\ calc.direct.percentage = 50 /\ calc.direct.quality = "critical"
    /\ calc.fromMissing.percentage = 75 /\ calc.fromMissing.quality = "partial"
    /\ calc.helper.quality = "partial"
    /\ resultV2.completenessPercentage = 0 /\ resultV2.dataQuality = "critical"

----------------------------------------------------------------------------
(* Properties of the parser (C14, C16) *)

Parsed    == flags # NotRun
Extracted == missedPunch # NotRun
Canonical == written # NotRun

\* C14: for each of the 16 combinations of the four deviation flags, with or
\* without a missing-timestamp bracket, parsing the canonical status string
\* written from them gives back the same five flag values: each deviation
\* flag is true iff its label was written, hasMissingTimestamps is true iff
\* the bracket was written.
C14_RoundTrip ==
    (Canonical /\ Parsed) =>
        /\ flags.checkInLate = written.checkInLate
        /\ flags.breakOutEarly = written.breakOutEarly
        /\ flags.breakInLate = written.breakInLate
        /\ flags.checkOutEarly = written.checkOutEarly
        /\ flags.hasMissingTimestamps = (Len(written.missing) > 0)
        /\ Contains(statusText, "[Missing:") <=> Len(written.missing) > 0

\* C14 witness: an early break-out alone, written with a bracket that names
\* Check Out, parsed back without an early check-out
C14_Witness ==
    /\ Canonical /\ Parsed
    /\ statusText = "Leave Soon Break Out [Missing: Break In, Check Out]"
    /\ flags.breakOutEarly /\ ~flags.checkOutEarly /\ ~flags.breakInLate
    /\ flags.hasMissingTimestamps

\* characters of str from position from on hold no "]"
NoCloserFrom(str, from) ==
    \A k \in from..Len(str) : SubSeq(str, k, k) # "]"

\* the bracket of str is malformed: the "[Missing:" opener is there but no "]"
\* follows it, or the opener literal is not there at all
Malformed(str) ==
    \/ /\ Contains(str, "[Missing:")
       /\ NoCloserFrom(str, IndexOf(str, "[Missing:"))
    \/ ~Contains(str, "[Missing:")

\* C16: for a status string whose missing-timestamp bracket is malformed (the
\* "[Missing:" opener has no closing "]", or the opener literal is wrong)
\* the extraction returns the empty result; whatever the string, the
\* extraction returns a string (the function has no throwing path).
C16_MalformedBracket ==
    /\ (Extracted /\ Malformed(statusText)) => missedPunch.text = ""
    /\ Extracted => missedPunch.text \in STRING

\* C16 witness: an opener that is never closed behind two labels, and the
\* extraction returned the empty text
C16_Witness ==
    /\ Extracted
    /\ statusText = "Late Check-in, Late Break In [Missing: Break Out, Check Out"
    /\ missedPunch.text = ""

----------------------------------------------------------------------------
(* Properties of the missed-punch column (C15) *)

BuiltTolerant == record # NotRun /\ record.policy = "v2"

ShortCode(f) ==
    CASE f = "checkIn"  -> "CI"
      [] f = "breakOut" -> "BTO"
      [] f = "breakIn"  -> "BTI"
      [] f = "checkOut" -> "CO"

\* short codes of the entries of the missing list from entry k on
RECURSIVE CodesFrom(_, _)
CodesFrom(missing, k) ==
    IF k > Len(missing) THEN ""
    ELSE IF k = Len(missing) THEN ShortCode(missing[k].field)
    ELSE ShortCode(missing[k].field) \o ", " \o CodesFrom(missing, k + 1)

\* C15: for every tolerant result the missed-punch text extracted from its
\* status is the list of short codes (CI, BTO, BTI, CO) of exactly the fields
\* in its missing-timestamp list, in the same order, and it is empty exactly
\* when that list is empty.
C15_MissedPunch ==
    BuiltTolerant =>
        /\ record.missedPunch = CodesFrom(resultV2.missingTimestamps, 1)
        /\ record.missedPunch = "" <=> Len(resultV2.missingTimestamps) = 0

\* the same restricted to results with checkIn present
C15_CheckInPresent ==
    (BuiltTolerant /\ ~CheckInAbsent) =>
        /\ record.missedPunch = CodesFrom(resultV2.missingTimestamps, 1)
        /\ record.missedPunch = "" <=> Len(resultV2.missingTimestamps) = 0

\* the record built from the result for an absent checkIn: one missing entry
\* (checkIn) and an empty missed-punch text
C15_InvalidRecord ==
    /\ BuiltTolerant
    /\ CheckInAbsent
    /\ Len(resultV2.missingTimestamps) = 1
    /\ resultV2.missingTimestamps[1].field = "checkIn"
    /\ record.missedPunch = ""

----------------------------------------------------------------------------
(* Properties of burst detection (C17, C18) *)

SwipeIdx    == 1..Len(swipeInput)
DetectedIdx == 1..Len(detected)

\* the user a detected burst belongs to
BurstUser(b) == detected[b].swipes[1].name

BurstsOf(u) == { b \in DetectedIdx : BurstUser(b) = u }

\* places <<b, p>> at which input swipe k occurs in the detected bursts
SwipePlaces(k) ==
    { bp \in DetectedIdx \X (1..MaxSwipes + 1) :
        /\ bp[2] <= Len(detected[bp[1]].swipes)
        /\ detected[bp[1]].swipes[bp[2]] = swipeInput[k] }

\* C17: when detection is done, for every employee the bursts are non-empty,
\* hold only that employee's swipes, are pairwise disjoint and ordered by
\* start (each burst ends before the next one of the employee starts), and
\* every input swipe occurs in exactly one burst, exactly once.
C17_BurstPartition ==
    bpc = "done" =>
        /\ \A b \in DetectedIdx :
              /\ Len(detected[b].swipes) >= 1
              /\ detected[b].count = Len(detected[b].swipes)
              /\ \A p \in 1..Len(detected[b].swipes) :
                    /\ detected[b].swipes[p].name = BurstUser(b)
                    /\ detected[b].swipes[p] \in { swipeInput[k] : k \in SwipeIdx }
        /\ \A k \in SwipeIdx : Cardinality(SwipePlaces(k)) = 1
        /\ \A u \in Users : \A b, c \in BurstsOf(u) :
              b < c => detected[b].latestSwipe.timestamp
                         < detected[c].earliestSwipe.timestamp

\* C17 witness: three swipes of two employees arriving out of order, detected
\* as two bursts of one employee and one burst of the other
C17_Witness ==
    /\ bpc = "done"
    /\ Len(swipeInput) = 3
    /\ swipeInput[1].timestamp > swipeInput[2].timestamp
    /\ \E u \in Users : Cardinality(BurstsOf(u)) = 2
    /\ Len(detected) = 3

\* the burst input swipe k was put in
BurstOfSwipe(k) == CHOOSE b \in DetectedIdx : \E bp \in SwipePlaces(k) : bp[1] = b

\* swipes a and b of one employee follow each other in timestamp order: no
\* swipe of that employee lies strictly between them in time
Consecutive(a, b) ==
    /\ a # b
    /\ swipeInput[a].name = swipeInput[b].name
    /\ swipeInput[a].timestamp <= swipeInput[b].timestamp
    /\ \A c \in SwipeIdx :
          swipeInput[c].name = swipeInput[a].name =>
             ~( /\ swipeInput[a].timestamp < swipeInput[c].timestamp
                /\ swipeInput[c].timestamp < swipeInput[b].timestamp )

\* C18: when detection is done, two swipes of an employee that are
\* consecutive in timestamp order are in the same burst iff the gap between
\* them is at most the threshold of two minutes (identical timestamps merge, a
\* gap of exactly 120 s merges, 121 s splits).
C18_MergeThreshold ==
    bpc = "done" =>
        \A a, b \in SwipeIdx :
            Consecutive(a, b) =>
               ( BurstOfSwipe(a) = BurstOfSwipe(b)
                   <=> swipeInput[b].timestamp - swipeInput[a].timestamp <= 120 )

\* C18 witness: one employee's swipes at 0 s, 90 s and 270 s: the 90-second
\* gap merges and the 3-minute gap splits
C18_Witness ==
    /\ bpc = "done"
    /\ Len(swipeInput) = 3
    /\ \A k \in SwipeIdx : swipeInput[k].name = "u1"
    /\ { swipeInput[k].timestamp : k \in SwipeIdx } = {0, 90, 270}
    /\ Len(detected) = 2
    /\ detected[1].count = 2
    /\ detected[1].latestSwipe.timestamp = 90
    /\ detected[2].earliestSwipe.timestamp = 270

----------------------------------------------------------------------------
(* Properties of the row stage (C19, C20) *)

SheetIdx == 1..Len(sheet)

IsData(r)      == sheet[r].cells = "some"
Unparseable(r) == IsData(r) /\ sheet[r].defect # ""
Parseable(r)   == IsData(r) /\ sheet[r].defect = ""
WrongStatus(r) == Parseable(r) /\ sheet[r].status # "Success"
NotAllowed(r)  == Parseable(r) /\ sheet[r].status = "Success" /\ sheet[r].name = "visitor"
Valid(r)       == Parseable(r) /\ sheet[r].status = "Success" /\ sheet[r].name # "visitor"

Count(P(_)) == Cardinality({ r \in SheetIdx : P(r) })

Responded == stage = "responded"

\* C19: if the worksheet has data rows and no event remains after the status
\* filter and the allow-list filter, the run ends with the validation error
\* (status 400) that reports the number filtered by status, the number
\* filtered by allow-list and the number of parse failures; no burst, shift
\* or evaluation stage runs and the response carries no result; the stages
\* run only when an event remains.
C19_EmptyAfterFilters ==
    /\ (Responded /\ Count(IsData) > 0 /\ Count(Valid) = 0) =>
          /\ response.status = 400
          /\ response.error = "No valid records found after filtering"
          /\ response.details.filteredByStatus = Count(WrongStatus)
          /\ response.details.filteredByUser = Count(NotAllowed)
          /\ response.details.invalidRows = Count(Unparseable)
          /\ DOMAIN response = {"status", "error", "details"}
          /\ stagesRun = <<>>
    /\ stagesRun # <<>> => (Len(swipes) > 0 /\ Count(Valid) > 0)
    /\ (response # NotRun /\ response.status = 400) => stagesRun = <<>>

\* C19 witness: three data rows, one filtered by status, one by the
\* allow-list, one unparseable, answered with the validation error
C19_Witness ==
    /\ Responded
    /\ Len(sheet) = 3
    /\ Count(WrongStatus) = 1 /\ Count(NotAllowed) = 1 /\ Count(Unparseable) = 1
    /\ response.status = 400
    /\ response.details.filteredByStatus = 1
    /\ response.details.filteredByUser = 1
    /\ response.details.invalidRows = 1

\* the rows were all looked at: the parse loop is over
LoopOver == stage = "responded" /\ Len(rawData) > 0

\* every data row is accounted for: accepted, filtered or warned about
EveryRowProcessed ==
    /\ Len(warnings) = Count(Unparseable)
    /\ Len(swipes) = Count(Valid)
    /\ filteredByStatus = Count(WrongStatus)
    /\ filteredByUser = Count(NotAllowed)

\* a parse failure alone does not abort: with a valid row the run succeeds
\* and returns the warnings
NotAborted ==
    Count(Valid) > 0 =>
        /\ response.status = 200
        /\ response.result.recordsProcessed = Count(Valid)
        /\ response.result.warnings = warnings

\* worksheet row r (sheet index r - 1) has exactly one warning naming it
OneWarningFor(r) ==
    Cardinality({ w \in 1..Len(warnings) : warnings[w].row = r }) = 1

\* C20: an unparseable row is skipped, exactly one warning naming its
\* worksheet row is recorded, every other row is still processed, and a parse
\* failure alone never aborts the batch.
C20_ParseFailure ==
    LoopOver =>
        /\ \A r \in SheetIdx : Unparseable(r) => OneWarningFor(r + 1)
        /\ EveryRowProcessed
        /\ NotAborted

\* the same without the row number: an unparseable row gets one warning, the
\* warnings carry the numbers 2, 3, ... of the non-empty rows
C20_ExceptRowNumber ==
    LoopOver =>
        /\ EveryRowProcessed
        /\ NotAborted
        /\ \A w \in 1..Len(warnings) :
              /\ warnings[w].row \in 2..(Len(rawData) + 1)
              /\ ParseThrows(rawData[warnings[w].row - 1])

\* a worksheet whose row 2 has no values and whose row 3 does not parse: the
\* warning names row 2
C20_ShiftedWarning ==
    /\ LoopOver
    /\ Len(sheet) = 3
    /\ sheet[1] = EmptyRow
    /\ Unparseable(2)
    /\ Valid(3)
    /\ Len(warnings) = 1
    /\ warnings[1].row = 2
    /\ response.status = 200

----------------------------------------------------------------------------
(* Properties of the deviation output (C21) *)

Filtered == deviationData # NotRun

\* C21: a record is in the deviation output iff its status contains "Late" or
\* "Soon" (some deviation was triggered), or the tolerant policy is active and
\* the record has requiresReview true; for the same shift instance a record in
\* the strict-mode deviation output is also in the tolerant-mode output.
C21_DeviationOutput ==
    Filtered =>
        /\ deviationData.stable <=>
              (Contains(resultV1.status, "Late") \/ Contains(resultV1.status, "Soon"))
        /\ deviationData.stable <=> TriggeredFields # {}
        /\ deviationData.v2 <=>
              \/ Contains(resultV2.status, "Late")
              \/ Contains(resultV2.status, "Soon")
              \/ resultV2.requiresReview
        /\ deviationData.v2 <=>
              ((~CheckInAbsent /\ TriggeredFields # {}) \/ resultV2.requiresReview)
        /\ deviationData.stable => deviationData.v2

\* C21 witness: check-in absent and break-out early: the strict record is in
\* the output for "Leave Soon Break Out", the tolerant one only for review
C21_Witness ==
    /\ Filtered
    /\ CheckInAbsent
    /\ resultV1.status = "Leave Soon Break Out"
    /\ resultV2.status = "INVALID - No Check-In"
    /\ deviationData.stable
    /\ deviationData.v2

----------------------------------------------------------------------------
(* Properties of the forward scan (C22, C23) *)

\* the forward scan is at a candidate inside the activity window and outside
\* the check-out window of the open instance's shift
ScanCandidate ==
    /\ pc = "inner"
    /\ j <= Len(bursts)
    /\ bursts[j].burstStart <= windowEnd
    /\ ~isTimeInRange(ClassTime(j), CurConfig.checkOutStart, CurConfig.checkOutEnd)

\* time of day t is at or after the start of the check-out window of template
\* sc, with the OR-across-midnight comparison when that window crosses midnight
AtOrAfterStartOf(t, sc) ==
    IF Norm(sc.checkOutStart) > Norm(sc.checkOutEnd)
    THEN Norm(t) >= Norm(sc.checkOutStart) \/ Norm(t) <= Norm(sc.checkOutEnd)
    ELSE Norm(t) >= Norm(sc.checkOutStart)

\* the candidate carries the code of a shift other than the open one
OtherShiftCandidate == ClassCode(j) # Null /\ ClassCode(j) # ClassCode(i)

\* the step closes the instance without assigning the candidate
ClosesInstance ==
    /\ pc' = "outer"
    /\ assigned' = assigned
    /\ assignedBursts' = assignedBursts

\* the step assigns the candidate to the open instance
AssignsCandidate ==
    /\ pc' = "inner"
    /\ assignedBursts' = Append(assignedBursts, bursts[j])
    /\ assigned'[j]
    /\ j' = j + 1

\* C22 as claimed: the candidate closes the instance exactly when it carries
\* the code of another shift T and its time of day is at or after the start
\* of T's check-out window; otherwise it is assigned.
C22_Original ==
    [][ ScanCandidate =>
          IF OtherShiftCandidate
               /\ AtOrAfterStartOf(ClassTime(j), Shifts(cfg)[ClassCode(j)])
          THEN ClosesInstance
          ELSE AssignsCandidate ]_vars

\* C22 amended: a candidate inside the activity window and outside S's
\* check-out window closes the instance exactly when it carries the code of
\* another shift T and its time of day is at or after the start of the
\* check-out window of S, the open instance's own shift (candidate >= start OR
\* candidate <= end when S's window crosses midnight); otherwise it is
\* assigned to S.  When S's window crosses midnight no candidate outside it
\* satisfies the comparison, so such an instance is never closed this way.
C22_DifferentShiftStop ==
    [][ ScanCandidate =>
          /\ IF OtherShiftCandidate /\ AtOrAfterStartOf(ClassTime(j), CurConfig)
             THEN ClosesInstance
             ELSE AssignsCandidate
          /\ Norm(CurConfig.checkOutStart) > Norm(CurConfig.checkOutEnd)
                => AssignsCandidate ]_vars

\* C22 witness: an instance was closed at a candidate inside its activity
\* window that carries another shift's code and was left unassigned
C22_Witness ==
    /\ pc = "outer"
    /\ Len(shiftInstances) >= 1
    /\ j <= Len(bursts)
    /\ j >= 2
    /\ bursts[j].burstStart <= windowEnd
    /\ ~assigned[j]
    /\ ClassCode(j) # Null
    /\ ClassCode(j) # shiftInstances[Len(shiftInstances)].shiftCode
    /\ LET inst == shiftInstances[Len(shiftInstances)]
       IN inst.bursts[Len(inst.bursts)] = bursts[j - 1]

\* the activity window end as C23 states it, for an instance of shift code
\* opened by a burst starting at openStart
WindowEndAsStated(code, openStart) ==
    LET endTime == Shifts(cfg)[code].checkOutEnd
        day     == openStart \div 86400
    IN IF endTime \div 3600 = 0 \/ code = "C"
       THEN (day + 1) * 86400 + endTime
       ELSE day * 86400 + endTime

\* C23: the activity window end of an instance of shift S is S's check-out
\* end time on the day after the opening burst's date if that time's hour is
\* 0 or S is the overnight shift C, and on the opening burst's date otherwise;
\* no burst starting after that instant is assigned to the instance.
C23_ActivityWindow ==
    /\ pc = "inner" =>
          /\ windowEnd = WindowEndAsStated(ClassCode(i), bursts[i].burstStart)
          /\ \A p \in 1..Len(assignedBursts) :
                assignedBursts[p].burstStart <= windowEnd
    /\ \A n \in InstIdx : \A p \in 1..Len(shiftInstances[n].bursts) :
          shiftInstances[n].bursts[p].burstStart
             <= WindowEndAsStated(shiftInstances[n].shiftCode, shiftInstances[n].checkIn)

\* C23 witness: under the default templates an afternoon instance opened at
\* 13:45 holds the burst of 21:45 and not the one that starts half a minute
\* after the next midnight
C23_Witness ==
    /\ cfg = "default"
    /\ pc = "done"
    /\ Len(bursts) = 3
    /\ bursts[1].burstStart = At(0, T(13, 45, 0))
    /\ bursts[2].burstStart = At(0, T(21, 45, 0))
    /\ bursts[3].burstStart = At(1, T(0, 0, 30))
    /\ Len(shiftInstances) = 1
    /\ shiftInstances[1].shiftCode = "B"
    /\ Len(shiftInstances[1].bursts) = 2
    /\ ~assigned[3]

----------------------------------------------------------------------------
(* Properties of the scan's work (C24) *)

RECURSIVE ScannedUpTo(_)
ScannedUpTo(k) == IF k = 0 THEN 0 ELSE visits[k].scanned + ScannedUpTo(k - 1)

RECURSIVE MarkedUpTo(_)
MarkedUpTo(k) == IF k = 0 THEN 0 ELSE visits[k].marked + MarkedUpTo(k - 1)

\* the step leaves the forward scan
LeavesScan == pc = "inner" /\ pc' = "outer"

\* C24 as claimed: each burst is visited by the forward scan and marked at
\* most once, the visits of all forward scans together do not exceed the
\* number of bursts, and when a forward scan ends the outer index is past
\* every burst the scan consumed.
C24_Original ==
    /\ [](\A k \in BurstIdx : visits[k].scanned <= 1 /\ visits[k].marked <= 1)
    /\ [](ScannedUpTo(Len(bursts)) <= Len(bursts))
    /\ [][LeavesScan => i' >= j]_vars

\* C24 amended: each burst is marked assigned at most once and visited by
\* forward scans at most twice (once as the candidate at which a scan stops,
\* once by the scan it opens itself), so the marks never exceed the number of
\* bursts and the visits never exceed twice that number; a forward scan
\* leaves the outer index where it was, the outer loop advances it by one and
\* steps over the marked bursts one at a time without opening anything.
C24_SinglePass ==
    /\ [](\A k \in BurstIdx :
            /\ visits[k].marked <= 1
            /\ visits[k].scanned <= 2
            /\ visits[k].marked = (IF assigned[k] THEN 1 ELSE 0))
    /\ [](MarkedUpTo(Len(bursts)) <= Len(bursts))
    /\ [](ScannedUpTo(Len(bursts)) <= 2 * Len(bursts))
    /\ [][LeavesScan => i' = i + 1]_vars
    /\ [][pc = "inner" => (i' = i \/ LeavesScan)]_vars
    /\ [][(pc = "outer" /\ i <= Len(bursts) /\ assigned[i])
            => (i' = i + 1 /\ pc' = "outer" /\ visits' = visits
                  /\ shiftInstances' = shiftInstances)]_vars

\* C24 witness: detection finished on three bursts; the first scan consumed
\* two bursts and stopped at the third, which then opened its own instance and
\* was visited a second time
C24_Witness ==
    /\ pc = "done"
    /\ Len(bursts) = 3
    /\ Len(shiftInstances) = 2
    /\ Len(shiftInstances[1].bursts) = 2
    /\ visits[3].scanned = 2
    /\ visits[3].marked = 1
    /\ ScannedUpTo(3) = 4

----------------------------------------------------------------------------
(* Properties of the two shift detectors (C25) *)

RanEarlier == earlier # NotRun

\* C25: on the same bursts and templates the earlier implementation returns,
\* and returns the instances of the optimised one: same shift code, shift
\* date, checkIn, checkOut and assigned bursts, in the same order.
C25_SameInstances ==
    RanEarlier =>
        /\ earlier.terminates
        /\ earlier.shiftInstances = shiftInstances

\* the two agree when every coded burst carries the morning code, and when
\* every coded burst carries the night code
C25_AgreeOnOneShift ==
    (RanEarlier /\ \E code \in {"A", "C"} :
                      \A k \in BurstIdx : ClassCode(k) \in {Null, code}) =>
        /\ earlier.terminates
        /\ earlier.shiftInstances = shiftInstances

\* a night check-in at 21:00 followed by a burst at 05:00 of the next day,
\* default templates: one night instance of two bursts from the optimised
\* detector, a night and a morning instance from the earlier one
C25_SplitByEarlier ==
    /\ RanEarlier
    /\ cfg = "default"
    /\ Len(bursts) = 2
    /\ bursts[1].burstStart = At(0, T(21, 0, 0))
    /\ bursts[2].burstStart = At(1, T(5, 0, 0))
    /\ Len(shiftInstances) = 1
    /\ Len(shiftInstances[1].bursts) = 2
    /\ earlier.terminates
    /\ Len(earlier.shiftInstances) = 2
    /\ earlier.shiftInstances[2].shiftCode = "A"

\* an afternoon check-in at 13:45, default templates: one instance from the
\* optimised detector, no return from the earlier one
C25_EarlierLoops ==
    /\ RanEarlier
    /\ cfg = "default"
    /\ Len(bursts) = 1
    /\ bursts[1].burstStart = At(0, T(13, 45, 0))
    /\ Len(shiftInstances) = 1
    /\ ~earlier.terminates

----------------------------------------------------------------------------
(* Properties under the default templates (C26) *)

\* index in bursts of the opening burst of instance n
OpeningIndex(n) == CHOOSE k \in BurstIdx : bursts[k] = shiftInstances[n].bursts[1]

\* the bursts from index k on that start no later than wEnd
UpToWindowEnd(k, wEnd) ==
    LET inside == { m \in k..Len(bursts) : bursts[m].burstStart <= wEnd }
    IN [p \in 1..Cardinality(inside) |-> bursts[k + p - 1]]

\* C26: with the default A/B/C templates the different-shift stop condition
\* is false for every candidate inside the activity window, the forward scan
\* ends only at a candidate past the window end or at the end of the list,
\* and every instance holds all bursts from its opening burst up to its
\* activity window end.
C26_DefaultNeverStops ==
    /\ [](( /\ cfg = "default"
            /\ pc = "inner"
            /\ j <= Len(bursts)
            /\ bursts[j].burstStart <= windowEnd )
          => ~isDifferentShift(ClassTime(j), ClassCode(j), ClassCode(i), CurConfig, i, j))
    /\ [][(cfg = "default" /\ LeavesScan)
            => (j > Len(bursts) \/ bursts[j].burstStart > windowEnd)]_vars
    /\ [](cfg = "default" =>
            \A n \in InstIdx :
                shiftInstances[n].bursts =
                    UpToWindowEnd(OpeningIndex(n),
                                  WindowEndAsStated(shiftInstances[n].shiftCode,
                                                    shiftInstances[n].checkIn)))

\* C26 witness: default templates, a night instance opened at 21:00 took the
\* burst of 05:00 of the next day, which lies in the morning check-in range
\* and before the night check-out window, and ended at the window end
C26_Witness ==
    /\ cfg = "default"
    /\ pc = "done"
    /\ Len(bursts) = 3
    /\ bursts[1].burstStart = At(0, T(21, 0, 0))
    /\ bursts[2].burstStart = At(1, T(5, 0, 0))
    /\ bursts[3].burstStart = At(1, T(8, 0, 30))
    /\ ClassCode(2) = "A"
    /\ Len(shiftInstances) = 1
    /\ shiftInstances[1].shiftCode = "C"
    /\ Len(shiftInstances[1].bursts) = 2
    /\ ~assigned[3]

----------------------------------------------------------------------------
(* Properties of a check-out after midnight (C27) *)

\* the evaluator was handed shift B and a check-out in the first minute after
\* midnight, the after-midnight side of B's check-out window 21:30 - 00:00
AfterMidnightCheckOut ==
    /\ input.shift = "B"
    /\ input.checkOut >= T(0, 0, 0)
    /\ input.checkOut <= T(0, 0, 59)

\* C27: for shift B a check-out in 00:00:00 - 00:00:59, which is later than
\* the expected check-out 22:00, is labelled "Leave Soon Check Out" by
\* neither policy.
C27_NoEarlyLabel ==
    AfterMidnightCheckOut =>
        /\ RanStrict => ~Contains(resultV1.status, "Leave Soon Check Out")
        /\ RanTolerant => ~Contains(resultV2.status, "Leave Soon Check Out")

\* shift B, check-in on time, breaks on time, check-out at 00:00:30: both
\* policies return "Leave Soon Check Out"
C27_LabelledEarly ==
    /\ RanStrict /\ RanTolerant
    /\ input.shift = "B"
    /\ input.checkIn = InputConfig.checkInLateThreshold - 1
    /\ input.breakOut = InputConfig.breakOutExpectedTime
    /\ input.breakIn = InputConfig.breakInLateThreshold - 1
    /\ input.checkOut = T(0, 0, 30)
    /\ resultV1.status = "Leave Soon Check Out"
    /\ resultV2.status = "Leave Soon Check Out"

\* the detector hands over such a check-out: under the default templates an
\* afternoon instance opened at 13:45 whose last burst starts at 23:59:30 and
\* ends at 00:00:30 of the next day has that end as its checkOut
C27_AcceptedByDetector ==
    /\ cfg = "default"
    /\ pc = "done"
    /\ Len(shiftInstances) = 1
    /\ shiftInstances[1].shiftCode = "B"
    /\ shiftInstances[1].checkIn = At(0, T(13, 45, 0))
    /\ shiftInstances[1].checkOut = At(1, T(0, 0, 30))
    /\ extractTime(shiftInstances[1].checkOut) = T(0, 0, 30)

----------------------------------------------------------------------------
(* Properties of the row accounting (C28) *)

\* rows counted so far, over the four outcomes
Counted == Len(swipes) + filteredByStatus + filteredByUser + Len(warnings)

\* data rows whose status is filtered out and whose user is not allowed either
BothFail(r) == Parseable(r) /\ sheet[r].status # "Success" /\ sheet[r].name = "visitor"

\* C28: during parsing every row looked at so far is counted in exactly one
\* of accepted swipes, filtered-by-status, filtered-by-allow-list and
\* warnings, each step of the loop adds one to exactly one of them, and when
\* parsing finishes totalRows = accepted + filteredByStatus + filteredByUser
\* + warnings; a row that fails the status filter is counted as
\* filtered-by-status only, also when its user is not allowed.
C28_RowAccounting ==
    /\ [](stage \in {"parse", "responded"} => Counted = ri)
    /\ [][(stage = "parse" /\ ri' = ri + 1) => Counted' = Counted + 1]_vars
    /\ [](LoopOver =>
            /\ ri = Len(rawData)
            /\ Len(rawData) = Count(IsData)
            /\ Counted = Len(rawData)
            /\ filteredByStatus = Count(WrongStatus)
            /\ filteredByUser = Count(NotAllowed)
            /\ response.status = 400 =>
                  response.details.totalRows =
                      Len(swipes) + response.details.filteredByStatus
                        + response.details.filteredByUser + response.details.invalidRows
            /\ response.status = 200 =>
                  response.debug.totalRows =
                      response.result.recordsProcessed + response.debug.filteredByStatus
                        + response.debug.filteredByUser + Len(warnings))

\* C28 witness: three rows, one of them with a filtered status and a user
\* that is not allowed, one with an allowed status and such a user, one
\* accepted: one filtered by status, one by the allow-list
C28_Witness ==
    /\ LoopOver
    /\ Len(sheet) = 3
    /\ Count(BothFail) = 1
    /\ Count(WrongStatus) = 1
    /\ Count(NotAllowed) = 1
    /\ Count(Valid) = 1
    /\ filteredByStatus = 1
    /\ filteredByUser = 1
    /\ Len(swipes) = 1
    /\ response.debug.totalRows = 3

----------------------------------------------------------------------------
(* Properties of the instances' burst runs (C29) *)

\* instance n holds exactly the bursts k, k + 1, ... of the employee's list
RunFrom(n, k) ==
    /\ k + Len(shiftInstances[n].bursts) - 1 <= Len(bursts)
    /\ shiftInstances[n].bursts =
          [p \in 1..Len(shiftInstances[n].bursts) |-> bursts[k + p - 1]]

\* index of the last burst of instance n
ClosingIndex(n) == OpeningIndex(n) + Len(shiftInstances[n].bursts) - 1

\* C29: the bursts of every instance are a contiguous run of the employee's
\* start-ordered burst list that begins at the instance's opening burst
\* (whose start is the instance's checkIn), and the run of an instance
\* created later lies entirely after the run of one created earlier.
C29_ContiguousRuns ==
    /\ \A n \in InstIdx :
          /\ \E k \in BurstIdx : RunFrom(n, k)
          /\ RunFrom(n, OpeningIndex(n))
          /\ bursts[OpeningIndex(n)].burstStart = shiftInstances[n].checkIn
    /\ \A n, m \in InstIdx : n < m => ClosingIndex(n) < OpeningIndex(m)

\* C29 witness: a morning check-in, a burst past the morning window that
\* belongs to no shift, and a night check-in: two runs of one burst each with
\* the orphan between them
C29_Witness ==
    /\ pc = "done"
    /\ Len(bursts) = 3
    /\ Len(shiftInstances) = 2
    /\ OpeningIndex(1) = 1 /\ ClosingIndex(1) = 1
    /\ OpeningIndex(2) = 3 /\ ClosingIndex(2) = 3
    /\ ~assigned[2]

----------------------------------------------------------------------------
(* Properties of the analytics rollup (C30) *)

UserIdx == IF userStats = NotRun THEN {} ELSE 1..Len(userStats.list)

UserStat(g) == userStats.list[g]

\* number of records of user u whose status contains neither "Late" nor
\* "Leave Soon"
NoDeviationCount(u) ==
    Cardinality({ k \in 1..Len(records) :
                    /\ records[k].name = u
                    /\ ~Contains(records[k].status, "Late")
                    /\ ~Contains(records[k].status, "Leave Soon") })

WithinPercent(p) == 0 <= p /\ p <= 1000

\* C30: for every user of the rollup, onTimeCount is the number of the user's
\* records whose status contains neither "Late" nor "Leave Soon", it lies in
\* 0..totalRecords, and the on-time, late and soon percentages each lie in
\* 0..100 and add up to 100.
C30_OnTimeCount ==
    \A g \in UserIdx :
        /\ UserStat(g).onTimeCount = NoDeviationCount(UserStat(g).userName)
        /\ 0 <= UserStat(g).onTimeCount
        /\ UserStat(g).onTimeCount <= UserStat(g).totalRecords
        /\ WithinPercent(UserStat(g).onTimePercentage)
        /\ WithinPercent(UserStat(g).latePercentage)
        /\ WithinPercent(UserStat(g).soonPercentage)
        /\ UserStat(g).onTimePercentage + UserStat(g).latePercentage
             + UserStat(g).soonPercentage = 1000

\* C30, the failing case: one record that is both late and left soon gives
\* its user an on-time count of -1 and an on-time percentage of -100
C30_NegativeOnTime ==
    /\ Len(records) = 1
    /\ records[1].status = "Late Check-in, Leave Soon Break Out"
    /\ UserIdx = {1}
    /\ UserStat(1).totalRecords = 1
    /\ UserStat(1).lateCount = 1
    /\ UserStat(1).soonCount = 1
    /\ UserStat(1).onTimeCount = -1
    /\ UserStat(1).onTimePercentage = -1000
    /\ summary # NotRun
    /\ summary.totalOnTime = -1

====
